---- MODULE Spec2Model ----
(***************************************************************************)
(* Coin-Collector netcode: the authoritative server (server.py), the wire  *)
(* framing (network.py, client.py) and the client's snapshot handling      *)
(* (client.py), as state machines.                                         *)
(*                                                                         *)
(* Numbers.  Python floats are modelled in fixed point: a coordinate v is  *)
(* the integer v * One.  Every constant of the code (1/60, 0.075, 0.05,    *)
(* 2*(8/1024), 1e-6) is a whole number of units, and so is half of each    *)
(* of them.  Divisions that do not come out even round towards minus       *)
(* infinity.  hypot is exact on axis-aligned vectors and on multiples of   *)
(* Pythagorean pairs, which are the only vectors the input sets produce.   *)
(* Wall-clock time is an integer number of milliseconds.                   *)
(***************************************************************************)
EXTENDS Integers, Sequences, FiniteSets, TLC

(***************************************************************************)
(* Bounds of the model                                                     *)
(***************************************************************************)
MaxSeq == 3

MaxCommands == 3

MaxGameCommands == 1

MaxTicks == 2

MaxFiveTicks == 3

MaxLiveCommands == 2

MaxLiveTicks == 5

MaxLockCommands == 1

MaxLockTicks == 1

MaxQueued == 2

MaxPayload == 2

MaxBody == 3

MaxFrames == 2

MaxSnapshots == 2

\* entries a delay queue holds, datagrams one poll reads off the socket, and
\* the time the delay queues are followed for, in ms
MaxPending == 2
MaxArrivals == 1
MaxShimTime == 3

\* 'if now - self.last_ping > 1.0', in ms
PingPeriod == 1000

(***************************************************************************)
(* Fixed-point arithmetic                                                  *)
(***************************************************************************)
Micro == 96

One == 1000000 * Micro

\* the element of a one-element set; Only({e(v) : v \in {d}}) is
\* LET v == d IN e(v) with d evaluated once
Only(S) == CHOOSE v \in S : TRUE

Abs(v) == IF v < 0 THEN -v ELSE v

Max2(a, b) == IF a >= b THEN a ELSE b

Min2(a, b) == IF a <= b THEN a ELSE b

RECURSIVE GCD(_, _)
GCD(a, b) == IF b = 0 THEN a ELSE Only({GCD(b, r) : r \in {a % b}})

RECURSIVE ISqrtIn(_, _, _)
ISqrtIn(n, lo, hi) ==
  IF lo >= hi THEN lo
  ELSE Only({IF mid * mid <= n THEN ISqrtIn(n, mid, hi)
                               ELSE Only({ISqrtIn(n, lo, m1) : m1 \in {mid - 1}}) :
             mid \in {(lo + hi + 1) \div 2}})

ISqrt(n) == ISqrtIn(n, 0, Min2(n, 46340))

\* a * b / c for c > 0, reduced before multiplying
MulDiv(a, b, c) ==
  Only({Only({((a \div g1) * (b \div g2)) \div ((c \div g1) \div g2) :
              g2 \in {GCD(Abs(b), c \div g1)}}) :
        g1 \in {GCD(Abs(a), c)}})

\* math.hypot
hypot(dx, dy) ==
  IF dy = 0 THEN Abs(dx)
  ELSE IF dx = 0 THEN Abs(dy)
  ELSE Only({g * ISqrt((dx \div g) * (dx \div g) + (dy \div g) * (dy \div g)) :
             g \in {GCD(Abs(dx), Abs(dy))}})

(***************************************************************************)
(* Constants of server.py and network.py                                   *)
(***************************************************************************)
PLAYER_RADIUS == 75 * (One \div 1000)

PLAYER_SPEED == One

COIN_RADIUS == 5 * (One \div 100)

BORDER_SIZE == 2 * (8 * (One \div 1024))

INITIAL_COINS == 10

INPUT_TIMEOUT == 100

COINCIDENT_EPS == Micro

BOUND_LO == -One + PLAYER_RADIUS + BORDER_SIZE

BOUND_HI == One - PLAYER_RADIUS - BORDER_SIZE

MSG_JOIN_REQUEST == 1

MSG_SERVER_ACCEPT == 2

MSG_PONG == 3

MSG_WORLD_SNAPSHOT == 4

MSG_COMMAND == 5

MSG_PING == 6

MSG_CLOSE == 7

MSG_JOIN_REJECT == 8

HEADER_SIZE == 8

MSG_TYPE_SIZE == 3

(***************************************************************************)
(* Input sets                                                              *)
(***************************************************************************)
Addrs == {"a1", "a2"}

ClientIds == {1, 2}

\* every address and id of a world, a third player included
AllAddrs == Addrs \cup {"a3"}

AllIds == ClientIds \cup {3}

\* direction vector carried by the command with sequence number q: every
\* second command is sent with a zero vector
DirOf(q) == IF q % 2 = 0 THEN <<0, 0>> ELSE <<1, 0>>

StepLen == PLAYER_SPEED \div 60

\* outcomes of random.uniform(-0.5, 0.5) for a joining player
StartSpots == {<<0, 0>>, <<4 * StepLen, 0>>}

Origin == {<<0, 0>>}

\* outcomes of random.uniform(-1 + COIN_RADIUS, 1 - COIN_RADIUS) for a coin
CoinSpots == {<<7 * StepLen, 0>>, <<-54 * StepLen, 0>>}

\* the positions drawn inside one handler: all near the players or all far
RandomStreams == {<<c>> : c \in CoinSpots}

\* elapsed wall-clock time between two ticks (at least 1/60 s): the tick rate,
\* or a stall longer than the input timeout
TickGaps == {17, 120}

TickRate == {17}

\* time.time() at start-up; last_client_recv defaults to 0.0
ClockStart == 1000

PingStamps == {987, 988}

MSG_UNKNOWN == 9

\* stands for the (None, None) of network.unpack_message on a datagram that
\* fails framing; no type code has four digits
MSG_NONE == 1000

\* the id the client is started with
LocalId == 1

RemoteId == 2

INTERPOLATION_DELAY == 150

SNAPSHOT_MAXLEN == 64

\* what the network delivers to the server in each specification: the message
\* types, the sender addresses, the client ids requested, the positions drawn
\* for a joining player, the number of command datagrams, and the time
\* between ticks
Env(types, addrs, ids, spots, cap, gaps) ==
  [types |-> types, addrs |-> addrs, ids |-> ids, spots |-> spots, cap |-> cap,
   gaps |-> gaps,
   \* the sequence numbers commands carry and their direction vectors
   seqs |-> 1 .. MaxSeq, dirs |-> [q \in 1 .. MaxSeq |-> DirOf(q)],
   \* whether a command datagram can arrive twice, whether the network can
   \* reorder commands, the number of ticks, and the number of final ticks
   \* before which the last datagram has arrived
   duplicates |-> TRUE, reorders |-> TRUE, ticks |-> MaxTicks, settle |-> 0,
   \* whether a join request or command can carry a truncated payload
   short |-> FALSE]

GameEnv ==
  Env({MSG_JOIN_REQUEST, MSG_COMMAND}, Addrs, ClientIds, Origin,
      MaxGameCommands, TickRate)

InputEnv ==
  Env({MSG_JOIN_REQUEST, MSG_COMMAND}, {"a1"}, {1}, StartSpots, MaxCommands,
      TickGaps)

DatagramEnv ==
  Env({MSG_JOIN_REQUEST, MSG_PING, MSG_CLOSE, MSG_UNKNOWN}, Addrs, ClientIds,
      Origin, 0, TickRate)

VARIABLES
  clients,           \* server: addr -> Player, as [addr, id] in insertion order
  client_id_map,     \* server: id -> Player, the Player records in insertion order
  last_client_recv,  \* server: addr -> time of the last in-order input
  coins,             \* server: list of Coin
  next_coin_id,      \* server
  clock,             \* time.time(), in ms
  ticks,             \* number of ticks run
  commands,          \* number of command datagrams received
  sent,              \* datagrams written by the last handler
  event,             \* the input the last handler processed
  applied,           \* history: id -> sequence numbers applied, in order
  applied_at,        \* history: id -> time a command was last applied, 0 if never
  received,          \* history: id -> sequence numbers enqueued, in arrival order
  lock,              \* server: the thread that holds self.lock, "" if free
  recv_pc,           \* receive thread: where it is, and the datagram it handles
  tick_pc,           \* tick thread: the part of the tick it is about to run
  wire,              \* codec: the datagram
  packed,            \* codec: the (type, payload) that was packed
  decoded,           \* codec: result of network.unpack_message
  client_decoded,    \* codec: result of client.unpack_message
  client_id,         \* client
  cl_players,        \* client: self.players, remote id -> interpolation state
  cl_coins,          \* client: self.coins
  local_x,           \* client
  local_y,           \* client
  score,             \* client
  input_seq,         \* client
  pending_inputs,    \* client
  snapshots,         \* client: server_time of the snapshots in self.snapshots
  cl_event,          \* the input the client's last step processed
  join_reply,        \* history: the replies to its join request the client processed
  queue,             \* SimulatedSocket.queue
  recv_queue,        \* client: self.recv_queue
  shim_clock,        \* time.time() as the delay queues read it, in ms
  poll               \* the last call on a delay queue, and what it did

serverVars == <<clients, client_id_map, last_client_recv, coins, next_coin_id,
                clock, ticks, commands, sent, event, applied, applied_at, received,
                lock, recv_pc, tick_pc>>

lockVars == <<lock, recv_pc, tick_pc>>

codecVars == <<wire, packed, decoded, client_decoded>>

clientVars == <<client_id, cl_players, cl_coins, local_x, local_y, score,
                input_seq, pending_inputs, snapshots, cl_event, join_reply>>

shimVars == <<queue, recv_queue, shim_clock, poll>>

vars == <<serverVars, codecVars, clientVars, shimVars>>

(***************************************************************************)
(* player.py, world.py                                                     *)
(***************************************************************************)
\* Player.__init__; client_ts and recv_ts of a queued input are never read
\* by the server and are left out of the queue entries
Player(cid, addr) ==
  [id |-> cid, addr |-> addr, x |-> 0, y |-> 0, score |-> 0,
   inputs |-> <<>>, last_seq |-> 0, moved |-> FALSE, last_dir |-> <<0, 0>>]

Coin(coin_id, x, y) == [id |-> coin_id, x |-> x, y |-> y]

(***************************************************************************)
(* Python dict and list helpers                                            *)
(***************************************************************************)
\* keys of the addr -> Player dict
ClientAddrs(cl) == {cl[i].addr : i \in 1 .. Len(cl)}

\* keys of the id -> Player dict
MapIds(m) == {m[i].id : i \in 1 .. Len(m)}

\* ids of the Player objects that are values of the addr -> Player dict
ClientPlayerIds(cl) == {cl[i].id : i \in 1 .. Len(cl)}

IndexOfAddr(cl, addr) == CHOOSE i \in 1 .. Len(cl) : cl[i].addr = addr

IndexOfId(m, cid) == CHOOSE i \in 1 .. Len(m) : m[i].id = cid

\* d[addr] = p: an existing key keeps its place, a new key goes last
DictSet(cl, addr, cid) ==
  IF addr \in ClientAddrs(cl)
  THEN [cl EXCEPT ![IndexOfAddr(cl, addr)] = [addr |-> addr, id |-> cid]]
  ELSE Append(cl, [addr |-> addr, id |-> cid])

\* list(self.clients.values()): the Player objects, read through the id map
ClientValues(cl, m) == [i \in 1 .. Len(cl) |-> m[IndexOfId(m, cl[i].id)]]

\* the objects of list ps written back into the id map
WriteBack(m, ps) ==
  [i \in 1 .. Len(m) |->
     IF \E j \in 1 .. Len(ps) : ps[j].id = m[i].id
     THEN ps[CHOOSE j \in 1 .. Len(ps) : ps[j].id = m[i].id]
     ELSE m[i]]

RECURSIVE InsertBySeq(_, _)
InsertBySeq(sorted, e) ==
  IF sorted = <<>> THEN <<e>>
  ELSE IF Head(sorted).seq <= e.seq
       THEN <<Head(sorted)>> \o InsertBySeq(Tail(sorted), e)
       ELSE <<e>> \o sorted

\* list.sort(key=lambda x: x[0]), a stable sort
RECURSIVE SortBySeq(_)
SortBySeq(q) ==
  IF q = <<>> THEN <<>>
  ELSE Only({InsertBySeq(sorted, q[Len(q)]) :
             sorted \in {SortBySeq(SubSeq(q, 1, Len(q) - 1))}})

\* a pickup that forgets self.coins.remove(coin)
RemoveCoinForgotten(cs, cid) == cs

\* self.coins.remove(coin): Coin has no __eq__, so the object itself goes
RECURSIVE RemoveCoin(_, _)
RemoveCoin(cs, cid) ==
  IF cs = <<>> THEN <<>>
  ELSE IF Head(cs).id = cid THEN Tail(cs)
       ELSE <<Head(cs)>> \o RemoveCoin(Tail(cs), cid)

(***************************************************************************)
(* GameServer                                                              *)
(***************************************************************************)
\* spawn_coin, with pos the outcome of the two random.uniform calls
spawn_coin(cs, nid, pos) ==
  [coins |-> Append(cs, Coin(nid, pos[1], pos[2])), next_coin_id |-> nid + 1]

\* the k-th random position drawn inside one handler
Draw(rnd, k) == rnd[(k % Len(rnd)) + 1]

\* the positions drawn by the constructor: every second coin is far away
InitStream == <<<<7 * StepLen, 0>>, <<-54 * StepLen, 0>>>>

\* the constructor's loop: for _ in range(10): self.spawn_coin()
RECURSIVE InitCoins(_, _)
InitCoins(n, rnd) ==
  IF n = 0 THEN [coins |-> <<>>, next_coin_id |-> 0]
  ELSE Only({spawn_coin(w.coins, w.next_coin_id, Draw(rnd, n - 1)) :
             w \in {InitCoins(n - 1, rnd)}})

\* a stale test that lets the last applied sequence number through again
IsStaleStrict(seq, last_seq) == seq < last_seq

\* the stale test of process_player_inputs
IsStale(seq, last_seq) == seq <= last_seq

\* a loop body that integrates the input over 1/30 s instead of 1/60 s
ApplyInputDoubleStep(st, h, now) ==
  LET p == st.p
      gap == h.seq # p.last_seq + 1
      nz == h.dx # 0 \/ h.dy # 0
      norm == hypot(h.dx, h.dy)
  IN [p |-> [p EXCEPT
               !.inputs = Tail(p.inputs),
               !.x = IF norm > 0
                     THEN @ + MulDiv(h.dx, PLAYER_SPEED, norm * 30) ELSE @,
               !.y = IF norm > 0
                     THEN @ + MulDiv(h.dy, PLAYER_SPEED, norm * 30) ELSE @,
               !.last_seq = Max2(IF gap THEN h.seq - 1 ELSE @, h.seq)],
      lcr |-> IF gap THEN st.lcr ELSE [st.lcr EXCEPT ![p.addr] = now],
      moved |-> (st.moved \/ nz),
      last_dir |-> IF nz THEN <<h.dx, h.dy>> ELSE st.last_dir,
      log |-> Append(st.log, h.seq)]

\* one pass of the loop body that applies the input h: lines 133-158
ApplyInput(st, h, now) ==
  LET p == st.p
      gap == h.seq # p.last_seq + 1
      nz == h.dx # 0 \/ h.dy # 0
      norm == hypot(h.dx, h.dy)
  IN [p |-> [p EXCEPT
               !.inputs = Tail(p.inputs),
               !.x = IF norm > 0
                     THEN @ + MulDiv(h.dx, PLAYER_SPEED, norm * 60) ELSE @,
               !.y = IF norm > 0
                     THEN @ + MulDiv(h.dy, PLAYER_SPEED, norm * 60) ELSE @,
               !.last_seq = Max2(IF gap THEN h.seq - 1 ELSE @, h.seq)],
      lcr |-> IF gap THEN st.lcr ELSE [st.lcr EXCEPT ![p.addr] = now],
      moved |-> (st.moved \/ nz),
      last_dir |-> IF nz THEN <<h.dx, h.dy>> ELSE st.last_dir,
      log |-> Append(st.log, h.seq)]

\* a timeout test that never lets a gap be skipped
TimedOutNever(now, last_recv) == FALSE

\* the timeout test of process_player_inputs: line 137
TimedOut(now, last_recv) == now - last_recv > INPUT_TIMEOUT

\* the while loop of process_player_inputs; st = [p, lcr, moved, last_dir, log]
RECURSIVE DrainInputs(_, _)
DrainInputs(st, now) ==
  IF st.p.inputs = <<>> THEN st
  ELSE
    LET h == Head(st.p.inputs)
        gap == h.seq # st.p.last_seq + 1
        timed_out == TimedOut(now, st.lcr[st.p.addr])
    IN IF IsStale(h.seq, st.p.last_seq)
       THEN Only({DrainInputs(st1, now) :
                  st1 \in {[st EXCEPT !.p.inputs = Tail(@)]}})
       ELSE IF gap /\ ~timed_out
       THEN st
       ELSE Only({DrainInputs(st1, now) : st1 \in {ApplyInput(st, h, now)}})

\* process_player_inputs: returns the player, last_client_recv and the
\* sequence numbers applied
process_player_inputs(p, lcr, now) ==
  Only({[p |-> [st.p EXCEPT !.moved = st.moved, !.last_dir = st.last_dir],
         lcr |-> st.lcr, log |-> st.log] :
        st \in {DrainInputs(st0, now) :
                st0 \in {[p |-> [p EXCEPT !.inputs = SortBySeq(@)],
                          lcr |-> lcr, moved |-> FALSE,
                          last_dir |-> <<0, 0>>, log |-> <<>>]}}})

\* a server that counts a coin twice
AwardTwice(p) == [p EXCEPT !.score = @ + 2]

\* 'p.score += 1'
Award(p) == [p EXCEPT !.score = @ + 1]

\* the loop of resolve_player_coin_collisions over the copy self.coins[:];
\* w = [p, coins, next_coin_id, k]
RECURSIVE CoinLoop(_, _, _, _)
CoinLoop(w, copy, i, rnd) ==
  IF i > Len(copy) THEN w
  ELSE IF hypot(w.p.x - copy[i].x, w.p.y - copy[i].y) < PLAYER_RADIUS + COIN_RADIUS
  THEN Only({CoinLoop([p |-> Award(w.p), coins |-> sp.coins,
                       next_coin_id |-> sp.next_coin_id, k |-> w.k + 1],
                      copy, j, rnd) :
             sp \in {spawn_coin(RemoveCoin(w.coins, copy[i].id), w.next_coin_id,
                                Draw(rnd, w.k))},
             j \in {i + 1}})
  ELSE Only({CoinLoop(w, copy, j, rnd) : j \in {i + 1}})

resolve_player_coin_collisions(w, rnd) == CoinLoop(w, w.coins, 1, rnd)

\* (num / den) * v * (w2 / 2)
Scale(num, den, v, w2) == MulDiv(num, v * w2, den * 2)

\* weights of the pair, in halves: <<w_a, w_b>>
Weights(a_moved, b_moved) ==
  IF a_moved /\ ~b_moved THEN <<2, 0>>
  ELSE IF b_moved /\ ~a_moved THEN <<0, 2>>
  ELSE <<1, 1>>

\* the pair pushed apart by overlap along (dx, dy) / dist: lines 190-212
Displace(a, b, dx, dy, dist, overlap) ==
  Only({<<[a EXCEPT !.x = @ - Scale(dx, dist, overlap, w[1]),
                    !.y = @ - Scale(dy, dist, overlap, w[1])],
          [b EXCEPT !.x = @ + Scale(dx, dist, overlap, w[2]),
                    !.y = @ + Scale(dy, dist, overlap, w[2])]>> :
        w \in {Weights(a.moved, b.moved)}})

\* body of the inner loop of resolve_player_player_collisions
PushPair(a, b) ==
  Only({IF dist0 = 0
        THEN Displace(a, b, COINCIDENT_EPS, 0, COINCIDENT_EPS,
                      2 * PLAYER_RADIUS - COINCIDENT_EPS)
        ELSE IF dist0 < 2 * PLAYER_RADIUS
        THEN Displace(a, b, b.x - a.x, b.y - a.y, dist0,
                      2 * PLAYER_RADIUS - dist0)
        ELSE <<a, b>> :
        dist0 \in {hypot(b.x - a.x, b.y - a.y)}})

\* positions left as the pushes put them
ClampMissing(v) == v

Clamp(v) == Max2(BOUND_LO, Min2(BOUND_HI, v))

RECURSIVE InnerLoop(_, _, _)
InnerLoop(ps, i, j) ==
  IF j > Len(ps) THEN ps
  ELSE Only({InnerLoop([ps EXCEPT ![i] = r[1], ![j] = r[2]], i, j1) :
             r \in {PushPair(ps[i], ps[j])}, j1 \in {j + 1}})

RECURSIVE OuterLoop(_, _, _)
OuterLoop(ps, i, clampOn) ==
  IF i > Len(ps) THEN ps
  ELSE Only({OuterLoop(IF clampOn
                       THEN [q EXCEPT ![i].x = Clamp(@), ![i].y = Clamp(@)]
                       ELSE q, i1, clampOn) :
             q \in {InnerLoop(ps, i, i + 1)}, i1 \in {i + 1}})

resolve_player_player_collisions(ps) == OuterLoop(ps, 1, TRUE)

\* first loop of update_physics; acc = [ps, lcr, logs]
RECURSIVE InputsLoop(_, _, _)
InputsLoop(acc, i, now) ==
  IF i > Len(acc.ps) THEN acc
  ELSE Only({InputsLoop([ps |-> [acc.ps EXCEPT ![i] = r.p], lcr |-> r.lcr,
                         logs |-> [acc.logs EXCEPT ![r.p.id] = @ \o r.log]],
                        i1, now) :
             r \in {process_player_inputs(acc.ps[i], acc.lcr, now)},
             i1 \in {i + 1}})

\* last loop of update_physics; acc = [p, coins, next_coin_id, k] of the last
\* player processed, and ps
RECURSIVE CoinsLoop(_, _, _)
CoinsLoop(acc, i, rnd) ==
  IF i > Len(acc.ps) THEN acc
  ELSE Only({CoinsLoop([ps |-> [acc.ps EXCEPT ![i] = r.p], coins |-> r.coins,
                        next_coin_id |-> r.next_coin_id, k |-> r.k], i1, rnd) :
             r \in {resolve_player_coin_collisions(
                      [p |-> acc.ps[i], coins |-> acc.coins,
                       next_coin_id |-> acc.next_coin_id, k |-> acc.k], rnd)},
             i1 \in {i + 1}})

\* update_physics on players = list(self.client_id_map.values())
update_physics(m, lcr, cs, nid, logs, now, rnd) ==
  Only({Only({[map |-> c.ps, lcr |-> a.lcr, coins |-> c.coins,
               next_coin_id |-> c.next_coin_id, logs |-> a.logs] :
              c \in {CoinsLoop(acc, 1, rnd) :
                     acc \in {[ps |-> resolve_player_player_collisions(a.ps),
                               coins |-> cs, next_coin_id |-> nid, k |-> 0]}}}) :
        a \in {InputsLoop([ps |-> m, lcr |-> lcr, logs |-> logs], 1, now)}})

Message(type, to, cid, ts, snap) ==
  [type |-> type, to |-> to, cid |-> cid, ts |-> ts, snap |-> snap]

NoSnap == [time |-> 0, players |-> <<>>, coins |-> <<>>]

\* broadcast_state: one payload, written to every key of self.clients
broadcast_state(cl, m, cs, now) ==
  Only({[i \in 1 .. Len(cl) |->
           Message(MSG_WORLD_SNAPSHOT, cl[i].addr, 0, 0, payload)] :
        payload \in
          {[time |-> now,
            players |-> [i \in 1 .. Len(m) |->
                           [id |-> m[i].id, x |-> m[i].x, y |-> m[i].y,
                            score |-> m[i].score, last_seq |-> m[i].last_seq]],
            coins |-> cs]}})

Payload(cid, seq, dir, ts) ==
  [cid |-> cid, seq |-> seq, dx |-> dir[1], dy |-> dir[2], ts |-> ts,
   short |-> FALSE]

NoPayload == Payload(0, 0, <<0, 0>>, 0)

\* a payload with fewer bytes than the struct of its message type
ShortPayload == [NoPayload EXCEPT !.short = TRUE]

\* a server that reads a truncated payload as zeros
StructErrorNever(msg_type, payload) == FALSE

\* struct.unpack_from raises struct.error on a truncated join request or
\* command payload: lines 69 and 96
StructError(msg_type, payload) ==
  payload.short /\ msg_type \in {MSG_JOIN_REQUEST, MSG_COMMAND}

\* the payloads a datagram of each type carries
Payloads(msg_type, env) ==
  (IF env.short /\ msg_type \in {MSG_JOIN_REQUEST, MSG_COMMAND}
   THEN {ShortPayload} ELSE {})
  \cup
  (IF msg_type = MSG_JOIN_REQUEST
   THEN {Payload(c, 0, <<0, 0>>, 0) : c \in env.ids}
   ELSE IF msg_type = MSG_COMMAND
   THEN {Payload(0, q, env.dirs[q], 0) : q \in env.seqs}
   ELSE IF msg_type = MSG_PING
   THEN {Payload(0, 0, <<0, 0>>, t) : t \in PingStamps}
   ELSE {NoPayload})

Event(kind, type, addr, payload) ==
  [kind |-> kind, type |-> type, addr |-> addr, payload |-> payload]

\* a join branch without the duplicate-id test
IdNeverTaken(cid, m) == FALSE

\* the test "client_id in self.client_id_map" of the join branch
IdTaken(cid, m) == cid \in MapIds(m)

\* process_packet, MSG_JOIN_REQUEST branch
JoinRequest(addr, cid, pos) ==
  IF IdTaken(cid, client_id_map)
  THEN /\ sent' = <<Message(MSG_JOIN_REJECT, addr, 0, 0, NoSnap)>>
       /\ UNCHANGED <<clients, client_id_map, received>>
  ELSE \E cl1 \in {DictSet(clients, addr, cid)} :
         \E m1 \in {Append(client_id_map,
                           [Player(cid, addr) EXCEPT !.x = pos[1], !.y = pos[2]])} :
           \E ps \in {resolve_player_player_collisions(ClientValues(cl1, m1))} :
             /\ clients' = cl1
             /\ client_id_map' = WriteBack(m1, ps)
             /\ sent' = <<Message(MSG_SERVER_ACCEPT, addr, cid, 0, NoSnap)>>
             /\ UNCHANGED received

\* process_packet, MSG_COMMAND branch
Command(addr, seq, dir) ==
  /\ sent' = <<>>
  /\ UNCHANGED clients
  /\ IF addr \notin ClientAddrs(clients)
     THEN UNCHANGED <<client_id_map, received>>
     ELSE \E i \in {IndexOfId(client_id_map,
                               clients[IndexOfAddr(clients, addr)].id)} :
            /\ client_id_map' =
                 [client_id_map EXCEPT ![i].inputs =
                    Append(@, [seq |-> seq, dx |-> dir[1], dy |-> dir[2]])]
            /\ received' = [received EXCEPT ![client_id_map[i].id] = Append(@, seq)]

\* process_packet, MSG_PING branch
\* a server that answers a ping with an empty timestamp
PingBlank(addr, ts) ==
  /\ sent' = <<Message(MSG_PONG, addr, 0, 0, NoSnap)>>
  /\ UNCHANGED <<clients, client_id_map, received>>

Ping(addr, ts) ==
  /\ sent' = <<Message(MSG_PONG, addr, 0, ts, NoSnap)>>
  /\ UNCHANGED <<clients, client_id_map, received>>

\* one iteration of receive_loop: a datagram that fails framing is skipped,
\* any other goes to process_packet, and an exception it raises is caught
process_packet(msg_type, payload, addr, pos, cap) ==
  /\ msg_type = MSG_COMMAND => commands < cap
  /\ commands' = IF msg_type = MSG_COMMAND THEN commands + 1 ELSE commands
  /\ event' = Event("recv", msg_type, addr, payload)
  /\ IF msg_type = MSG_JOIN_REQUEST /\ ~StructError(msg_type, payload)
     THEN JoinRequest(addr, payload.cid, pos)
     ELSE IF msg_type = MSG_COMMAND /\ ~StructError(msg_type, payload)
     THEN Command(addr, payload.seq, <<payload.dx, payload.dy>>)
     ELSE IF msg_type = MSG_PING THEN Ping(addr, payload.ts)
     ELSE /\ sent' = <<>>
          /\ UNCHANGED <<clients, client_id_map, received>>
  /\ UNCHANGED <<last_client_recv, coins, next_coin_id, clock, ticks, applied,
                 applied_at>>
  /\ UNCHANGED <<codecVars, clientVars, shimVars>>

\* one iteration of game_loop that runs a tick, gap ms after the last one
game_loop(gap, rnd, cap) ==
  /\ ticks < cap
  /\ \E now \in {clock + gap} :
       \E r \in {update_physics(client_id_map, last_client_recv, coins,
                                next_coin_id, applied, now, rnd)} :
         /\ clock' = now
         /\ client_id_map' = r.map
         /\ last_client_recv' = r.lcr
         /\ coins' = r.coins
         /\ next_coin_id' = r.next_coin_id
         /\ applied' = r.logs
         /\ applied_at' = [c \in AllIds |->
                             IF r.logs[c] # applied[c] THEN now ELSE applied_at[c]]
         /\ sent' = broadcast_state(clients, r.map, r.coins, now)
  /\ ticks' = ticks + 1
  /\ event' = Event("tick", 0, "", NoPayload)
  /\ UNCHANGED <<clients, commands, received>>
  /\ UNCHANGED <<codecVars, clientVars, shimVars>>

CodecIdle ==
  /\ wire = <<>>
  /\ packed = <<>>
  /\ decoded = <<>>
  /\ client_decoded = <<>>

\* Client.__init__
ClientInit ==
  /\ client_id = LocalId
  /\ cl_players = <<>>
  /\ cl_coins = <<>>
  /\ local_x = 0
  /\ local_y = 0
  /\ score = 0
  /\ input_seq = 0
  /\ pending_inputs = <<>>
  /\ snapshots = <<>>
  /\ cl_event = <<>>
  /\ join_reply = {}

\* a call on the delay queue of owner by: the time it read first, the queue
\* it found, the datagrams it queued each with the time read for its stamp,
\* the datagrams it handed to the caller and those it wrote to the socket
Poll(kind, by, now, before, arrivals, stamps, ready, written, last_ping) ==
  [kind |-> kind, by |-> by, now |-> now, before |-> before, arrivals |-> arrivals,
   stamps |-> stamps, ready |-> ready, written |-> written, last_ping |-> last_ping]

\* SimulatedSocket.__init__, and the queue fields of Client.__init__
ShimIdle(by) ==
  /\ queue = <<>>
  /\ recv_queue = <<>>
  /\ shim_clock = ClockStart
  /\ poll = Poll("init", by, ClockStart, <<>>, <<>>, <<>>, <<>>, <<>>, ClockStart)

\* the receive thread blocked in sock.recvfrom
RecvIdle == [at |-> "idle", type |-> 0, addr |-> "", payload |-> NoPayload,
             pos |-> <<0, 0>>]

\* GameServer.__init__, all but the connection tables
WorldInit ==
  /\ last_client_recv = [a \in AllAddrs |-> 0]
  /\ \E w \in {InitCoins(INITIAL_COINS, InitStream)} :
       coins = w.coins /\ next_coin_id = w.next_coin_id
  /\ clock = ClockStart
  /\ ticks = 0
  /\ commands = 0
  /\ sent = <<>>
  /\ event = Event("init", 0, "", NoPayload)
  /\ applied = [c \in AllIds |-> <<>>]
  /\ applied_at = [c \in AllIds |-> 0]
  /\ received = [c \in AllIds |-> <<>>]
  /\ lock = ""
  /\ recv_pc = RecvIdle
  /\ tick_pc = "idle"

\* GameServer.__init__
ServerInit ==
  /\ clients = <<>>
  /\ client_id_map = <<>>
  /\ WorldInit

Init ==
  /\ ServerInit
  /\ CodecIdle
  /\ ClientInit
  /\ ShimIdle("")

\* the sequence numbers of the commands enqueued for the player at addr
SeqsFrom(addr) ==
  IF addr \in ClientAddrs(clients)
  THEN Only({{arrived[k] : k \in 1 .. Len(arrived)} :
             arrived \in {received[clients[IndexOfAddr(clients, addr)].id]}})
  ELSE {}

Receive(env) ==
  /\ ticks + env.settle <= env.ticks
  /\ \E msg_type \in env.types, addr \in env.addrs, pos \in env.spots :
       \E payload \in Payloads(msg_type, env) :
         /\ msg_type = MSG_COMMAND =>
              /\ env.duplicates \/ payload.seq \notin SeqsFrom(addr)
              /\ env.reorders \/ \A q \in SeqsFrom(addr) : q < payload.seq
         /\ process_packet(msg_type, payload, addr, pos, env.cap)
  /\ UNCHANGED lockVars

Tick(env) ==
  /\ \E gap \in env.gaps, rnd \in RandomStreams : game_loop(gap, rnd, env.ticks)
  /\ UNCHANGED lockVars

\* joins, commands and ticks, two addresses and two ids
Next == Receive(GameEnv) \/ Tick(GameEnv)

Spec == Init /\ [][Next]_vars

\* one client and its command stream
NextInputs == Receive(InputEnv) \/ Tick(InputEnv)

SpecInputs == Init /\ [][NextInputs]_vars

\* joins, pings, close messages and datagrams of an unknown type
NextDatagrams == Receive(DatagramEnv) \/ Tick(DatagramEnv)

SpecDatagrams == Init /\ [][NextDatagrams]_vars

\* a spawn position with no coin within reach of five steps to the right
FiveSpots == {<<-30 * StepLen, 0>>}

\* the sequence numbers of a run of five commands
FiveSeqs == 1 .. 5

\* one client whose five commands all move right; each arrives once, in any
\* order, with ticks in between
FiveEnv ==
  [Env({MSG_JOIN_REQUEST, MSG_COMMAND}, {"a1"}, {1}, FiveSpots,
       Cardinality(FiveSeqs), TickRate)
   EXCEPT !.seqs = FiveSeqs, !.dirs = [q \in FiveSeqs |-> <<1, 0>>],
          !.duplicates = FALSE, !.ticks = MaxFiveTicks]

NextFive == Receive(FiveEnv) \/ Tick(FiveEnv)

SpecFive == Init /\ [][NextFive]_vars

\* ticks 60 ms apart: a gap times out at the second tick after the one that
\* applied the last in-order command
LiveGaps == {60}

SettleTicks == 3

\* one client whose commands stop arriving SettleTicks ticks before the
\* last tick
LiveEnv ==
  [Env({MSG_JOIN_REQUEST, MSG_COMMAND}, {"a1"}, {1}, FiveSpots, MaxLiveCommands,
       LiveGaps)
   EXCEPT !.ticks = MaxLiveTicks, !.settle = SettleTicks]

NextLive == Receive(LiveEnv) \/ Tick(LiveEnv)

\* game_loop runs in its own thread for as long as the server runs: a tick
\* that can run does run
SpecLive == Init /\ [][NextLive]_vars /\ WF_vars(Tick(LiveEnv))

(***************************************************************************)
(* server.py, the receive thread and the tick thread around self.lock      *)
(***************************************************************************)
\* an acquire that does not wait for the lock
LockFreeAlways(holder) == TRUE

\* threading.Lock: "with self.lock" goes on once no thread holds it
LockFree(holder) == holder = ""

\* process_packet takes the lock for a join request and for a command from
\* a known address
NeedsLock(msg_type, addr, payload) ==
  /\ ~StructError(msg_type, payload)
  /\ \/ msg_type = MSG_JOIN_REQUEST
     \/ msg_type = MSG_COMMAND /\ addr \in ClientAddrs(clients)

\* receive_loop and process_packet up to "with self.lock"
RecvWait(env) ==
  /\ recv_pc.at = "idle"
  /\ \E msg_type \in env.types, addr \in env.addrs, pos \in env.spots :
       \E payload \in Payloads(msg_type, env) :
         /\ NeedsLock(msg_type, addr, payload)
         /\ msg_type = MSG_COMMAND => commands < env.cap
         /\ recv_pc' = [at |-> "wait", type |-> msg_type, addr |-> addr,
                        payload |-> payload, pos |-> pos]
  /\ UNCHANGED <<clients, client_id_map, last_client_recv, coins, next_coin_id,
                 clock, ticks, commands, sent, event, applied, applied_at,
                 received, lock, tick_pc>>
  /\ UNCHANGED <<codecVars, clientVars, shimVars>>

\* process_packet on a datagram it handles without the lock
RecvDirect(env) ==
  /\ recv_pc.at = "idle"
  /\ \E msg_type \in env.types, addr \in env.addrs, pos \in env.spots :
       \E payload \in Payloads(msg_type, env) :
         /\ ~NeedsLock(msg_type, addr, payload)
         /\ process_packet(msg_type, payload, addr, pos, env.cap)
  /\ UNCHANGED lockVars

\* "with self.lock:" of process_packet, entered
RecvAcquire ==
  /\ recv_pc.at = "wait"
  /\ LockFree(lock)
  /\ lock' = "recv"
  /\ recv_pc' = [recv_pc EXCEPT !.at = "locked"]
  /\ UNCHANGED <<clients, client_id_map, last_client_recv, coins, next_coin_id,
                 clock, ticks, commands, sent, event, applied, applied_at,
                 received, tick_pc>>
  /\ UNCHANGED <<codecVars, clientVars, shimVars>>

\* the body of "with self.lock:" of process_packet, the release and the reply
RecvRelease(env) ==
  /\ recv_pc.at = "locked"
  /\ process_packet(recv_pc.type, recv_pc.payload, recv_pc.addr, recv_pc.pos,
                    env.cap)
  /\ lock' = ""
  /\ recv_pc' = RecvIdle
  /\ UNCHANGED tick_pc

\* game_loop: "with self.lock:" entered, gap ms after the last tick
TickAcquire(env) ==
  /\ tick_pc = "idle"
  /\ ticks < env.ticks
  /\ LockFree(lock)
  /\ lock' = "tick"
  /\ tick_pc' = "inputs"
  /\ \E gap \in env.gaps : clock' = clock + gap
  /\ UNCHANGED <<clients, client_id_map, last_client_recv, coins, next_coin_id,
                 ticks, commands, sent, event, applied, applied_at, received,
                 recv_pc>>
  /\ UNCHANGED <<codecVars, clientVars, shimVars>>

\* update_physics, first loop: process_player_inputs of every player
TickInputs ==
  /\ tick_pc = "inputs"
  /\ \E a \in {InputsLoop([ps |-> client_id_map, lcr |-> last_client_recv,
                            logs |-> applied], 1, clock)} :
       /\ client_id_map' = a.ps
       /\ last_client_recv' = a.lcr
       /\ applied' = a.logs
       /\ applied_at' = [c \in AllIds |->
                           IF a.logs[c] # applied[c] THEN clock ELSE applied_at[c]]
  /\ tick_pc' = "collide"
  /\ UNCHANGED <<clients, coins, next_coin_id, clock, ticks, commands, sent,
                 event, received, lock, recv_pc>>
  /\ UNCHANGED <<codecVars, clientVars, shimVars>>

\* update_physics, resolve_player_player_collisions
TickCollide ==
  /\ tick_pc = "collide"
  /\ client_id_map' = resolve_player_player_collisions(client_id_map)
  /\ tick_pc' = "coins"
  /\ UNCHANGED <<clients, last_client_recv, coins, next_coin_id, clock, ticks,
                 commands, sent, event, applied, applied_at, received, lock,
                 recv_pc>>
  /\ UNCHANGED <<codecVars, clientVars, shimVars>>

\* update_physics, last loop: resolve_player_coin_collisions of every player
TickCoins ==
  /\ tick_pc = "coins"
  /\ \E rnd \in RandomStreams :
       \E c \in {CoinsLoop([ps |-> client_id_map, coins |-> coins,
                            next_coin_id |-> next_coin_id, k |-> 0], 1, rnd)} :
         /\ client_id_map' = c.ps
         /\ coins' = c.coins
         /\ next_coin_id' = c.next_coin_id
  /\ tick_pc' = "broadcast"
  /\ UNCHANGED <<clients, last_client_recv, clock, ticks, commands, sent, event,
                 applied, applied_at, received, lock, recv_pc>>
  /\ UNCHANGED <<codecVars, clientVars, shimVars>>

\* broadcast_state and the end of "with self.lock:" of game_loop
TickBroadcast ==
  /\ tick_pc = "broadcast"
  /\ sent' = broadcast_state(clients, client_id_map, coins, clock)
  /\ ticks' = ticks + 1
  /\ event' = Event("tick", 0, "", NoPayload)
  /\ lock' = ""
  /\ tick_pc' = "idle"
  /\ UNCHANGED <<clients, client_id_map, last_client_recv, coins, next_coin_id,
                 clock, commands, applied, applied_at, received, recv_pc>>
  /\ UNCHANGED <<codecVars, clientVars, shimVars>>

\* two clients, their joins, their first command and ticks
LockEnv ==
  [Env({MSG_JOIN_REQUEST, MSG_COMMAND}, Addrs, ClientIds, Origin, MaxLockCommands,
       TickRate)
   EXCEPT !.seqs = {1}, !.dirs = [q \in {1} |-> <<1, 0>>], !.ticks = MaxLockTicks]

NextLock ==
  \/ RecvWait(LockEnv)
  \/ RecvDirect(LockEnv)
  \/ RecvAcquire
  \/ RecvRelease(LockEnv)
  \/ TickAcquire(LockEnv)
  \/ TickInputs
  \/ TickCollide
  \/ TickCoins
  \/ TickBroadcast

SpecLock == Init /\ [][NextLock]_vars

\* one client; pings and datagrams that fail framing, of an unknown type or
\* truncated arrive among its join requests and commands
DropEnv ==
  [Env({MSG_JOIN_REQUEST, MSG_COMMAND, MSG_PING, MSG_UNKNOWN, MSG_NONE}, {"a1"}, {1},
       Origin, MaxLockCommands, TickRate)
   EXCEPT !.seqs = {1}, !.dirs = [q \in {1} |-> <<1, 0>>], !.ticks = MaxLockTicks,
          !.short = TRUE]

NextDrop ==
  \/ RecvWait(DropEnv)
  \/ RecvDirect(DropEnv)
  \/ RecvAcquire
  \/ RecvRelease(DropEnv)
  \/ TickAcquire(DropEnv)
  \/ TickInputs
  \/ TickCollide
  \/ TickCoins
  \/ TickBroadcast

SpecDrop == Init /\ [][NextDrop]_vars

(***************************************************************************)
(* Wire framing: network.py and its copy in client.py.  A datagram is a    *)
(* sequence of byte values.                                                *)
(***************************************************************************)
Byte0 == 48

ByteA == 97

ByteSpace == 32

BytePlus == 43

ByteMinus == 45

ByteUnderscore == 95

ByteHigh == 255

IsDigit(b) == b >= 48 /\ b <= 57

\* str.isspace on ASCII, which int() strips from both ends
IsSpace(b) == b \in {9, 10, 11, 12, 13, 28, 29, 30, 31, 32}

RECURSIVE Digits(_)
Digits(n) == IF n < 10 THEN <<Byte0 + n>> ELSE Digits(n \div 10) \o <<Byte0 + (n % 10)>>

RECURSIVE ZeroPad(_, _)
ZeroPad(ds, width) == IF Len(ds) >= width THEN ds ELSE ZeroPad(<<Byte0>> \o ds, width)

\* a format specification without the zero fill: f"{n}"
FormatDecUnpadded(n, width) == Digits(n)

\* f"{n:0<width>}".encode('ascii') for n >= 0
FormatDec(n, width) == ZeroPad(Digits(n), width)

\* data[start:stop] with Python's clipping and negative indices
PySlice(data, start, stop) ==
  LET n == Len(data)
      lo == IF start < 0 THEN Max2(n + start, 0) ELSE Min2(start, n)
      hi == IF stop < 0 THEN Max2(n + stop, 0) ELSE Min2(stop, n)
  IN IF lo < hi THEN SubSeq(data, lo + 1, hi) ELSE <<>>

RECURSIVE LStrip(_)
LStrip(bs) == IF bs # <<>> /\ IsSpace(Head(bs)) THEN LStrip(Tail(bs)) ELSE bs

RECURSIVE RStrip(_)
RStrip(bs) ==
  IF bs # <<>> /\ IsSpace(bs[Len(bs)]) THEN RStrip(SubSeq(bs, 1, Len(bs) - 1)) ELSE bs

\* the digit string of an int literal: digits, single underscores between them
WellFormedDigits(ds) ==
  /\ ds # <<>>
  /\ \A i \in 1 .. Len(ds) : IsDigit(ds[i]) \/ ds[i] = ByteUnderscore
  /\ IsDigit(ds[1])
  /\ IsDigit(ds[Len(ds)])
  /\ \A i \in 1 .. Len(ds) - 1 : ~(ds[i] = ByteUnderscore /\ ds[i + 1] = ByteUnderscore)

RECURSIVE DigitsValue(_, _)
DigitsValue(ds, acc) ==
  IF ds = <<>> THEN acc
  ELSE IF Head(ds) = ByteUnderscore THEN DigitsValue(Tail(ds), acc)
  ELSE Only({DigitsValue(Tail(ds), a) : a \in {acc * 10 + (Head(ds) - Byte0)}})

ParseError == [ok |-> FALSE, val |-> 0]

\* int(bs.decode('ascii')): ok is FALSE where Python raises ValueError
\* (UnicodeDecodeError is a ValueError)
ParseInt(bs) ==
  IF \E i \in 1 .. Len(bs) : bs[i] >= 128 THEN ParseError
  ELSE Only({
    IF t = <<>> THEN ParseError
    ELSE IF Head(t) \in {BytePlus, ByteMinus}
    THEN IF WellFormedDigits(Tail(t))
         THEN [ok |-> TRUE,
               val |-> IF Head(t) = ByteMinus THEN -DigitsValue(Tail(t), 0)
                                             ELSE DigitsValue(Tail(t), 0)]
         ELSE ParseError
    ELSE IF WellFormedDigits(t) THEN [ok |-> TRUE, val |-> DigitsValue(t, 0)]
    ELSE ParseError :
    t \in {RStrip(LStrip(bs))}})

\* network.pack_message
pack_message(msg_type, payload) ==
  Only({FormatDec(Len(body), HEADER_SIZE) \o body :
        body \in {FormatDec(msg_type, MSG_TYPE_SIZE) \o payload}})

\* client.pack_message
client_pack_message(class_id, payload) ==
  Only({FormatDec(Len(body), HEADER_SIZE) \o body :
        body \in {FormatDec(class_id, MSG_TYPE_SIZE) \o payload}})

Decoded(status, type, payload) == [status |-> status, type |-> type, payload |-> payload]

\* the (None, None) result
DecodeFailure == Decoded("none", 0, <<>>)

\* an exception leaving the function
DecodeRaise == Decoded("raise", 0, <<>>)

\* the statements both decoders share, after the length test; onError is
\* what a ValueError turns into
DecodeBody(data, onError) ==
  Only({
    IF ~size.ok THEN onError
    ELSE Only({
      Only({IF ~type.ok THEN onError
            ELSE Decoded("ok", type.val, PySlice(body, MSG_TYPE_SIZE, Len(body))) :
            type \in {ParseInt(PySlice(body, 0, MSG_TYPE_SIZE))}}) :
      body \in {PySlice(data, HEADER_SIZE, HEADER_SIZE + size.val)}}) :
    size \in {ParseInt(PySlice(data, 0, HEADER_SIZE))}})

\* network.unpack_message: ValueError is caught
unpack_message(data) ==
  IF Len(data) < HEADER_SIZE + MSG_TYPE_SIZE THEN DecodeFailure
  ELSE DecodeBody(data, DecodeFailure)

\* client.unpack_message: no try block
client_unpack_message(data) ==
  IF Len(data) < HEADER_SIZE + MSG_TYPE_SIZE THEN DecodeFailure
  ELSE DecodeBody(data, DecodeRaise)

\* byte strings over alphabet of length 0 .. n
RECURSIVE BytesUpTo(_, _)
BytesUpTo(alphabet, n) ==
  IF n = 0 THEN {<<>>}
  ELSE Only({shorter \cup {Append(b, c) : b \in shorter, c \in alphabet} :
             shorter \in {BytesUpTo(alphabet, n - 1)}})

\* message types handed to pack_message; 1000 does not fit three digits
PackTypes == {0, MSG_COMMAND, 42, 999, 1000}

PackPayloads == BytesUpTo({0, Byte0, ByteHigh}, MaxPayload)

\* length fields of received datagrams: six zeros and two arbitrary bytes,
\* and some signed, spaced and underscored ones
LengthFields ==
  {<<48, 48, 48, 48, 48, 48, a, b>> :
     a, b \in {48, 49, 51, 52, ByteA, ByteSpace, ByteHigh}}
  \cup {<<ByteMinus, 48, 48, 48, 48, 48, 48, 57>>,
        <<BytePlus, 48, 48, 48, 48, 48, 48, 51>>,
        <<48, 48, 48, 48, ByteUnderscore, 48, 48, 51>>,
        <<ByteSpace, ByteSpace, ByteSpace, ByteSpace, ByteSpace, ByteSpace,
          ByteSpace, 51>>,
        <<ByteSpace, ByteSpace, ByteSpace, ByteSpace, ByteSpace, ByteSpace,
          ByteSpace, ByteSpace>>}

\* type field plus payload of received datagrams
Bodies ==
  {t \o q : t \in BytesUpTo({48, 49, ByteA, ByteHigh}, MSG_TYPE_SIZE),
            q \in BytesUpTo({48, ByteA}, MaxBody)}

\* datagrams an arbitrary sender can put on the wire, datagrams cut short
\* of the length field included
Datagrams ==
  {h \o b : h \in LengthFields, b \in Bodies}
  \cup {SubSeq(h, 1, k) : h \in LengthFields, k \in {0, 1, 7}}

\* a peer frames a message and sends it
Pack ==
  /\ wire = <<>>
  /\ \E msg_type \in PackTypes, payload \in PackPayloads, by \in {"network", "client"} :
       /\ wire' = <<IF by = "client" THEN client_pack_message(msg_type, payload)
                    ELSE pack_message(msg_type, payload)>>
       /\ packed' = <<[type |-> msg_type, payload |-> payload]>>
  /\ UNCHANGED <<decoded, client_decoded>>
  /\ UNCHANGED <<serverVars, clientVars, shimVars>>

\* a datagram of any content arrives
Inject ==
  /\ wire = <<>>
  /\ \E data \in Datagrams : wire' = <<data>>
  /\ UNCHANGED <<packed, decoded, client_decoded>>
  /\ UNCHANGED <<serverVars, clientVars, shimVars>>

\* the datagram in flight is decoded by the server's and by the client's decoder
Unpack ==
  /\ wire # <<>>
  /\ decoded = <<>>
  /\ decoded' = <<unpack_message(wire[1])>>
  /\ client_decoded' = <<client_unpack_message(wire[1])>>
  /\ UNCHANGED <<wire, packed>>
  /\ UNCHANGED <<serverVars, clientVars, shimVars>>

\* the receiver is done with the datagram
Discard ==
  /\ decoded # <<>>
  /\ wire' = <<>>
  /\ packed' = <<>>
  /\ decoded' = <<>>
  /\ client_decoded' = <<>>
  /\ UNCHANGED <<serverVars, clientVars, shimVars>>

NextCodec == Pack \/ Inject \/ Unpack \/ Discard

SpecCodec == Init /\ [][NextCodec]_vars

(***************************************************************************)
(* client.py: prediction, reconciliation and remote interpolation.  What   *)
(* is drawn, the ping timer and the round-trip estimate are left out; the  *)
(* snapshot fields are the values struct.unpack_from returns.              *)
(***************************************************************************)
SnapPlayer(pid, x, y, sc, last_seq) ==
  [id |-> pid, x |-> x, y |-> y, score |-> sc, last_seq |-> last_seq]

\* Snapshot(server_time, players, coins); players in the order of the payload
Snapshot(server_time, players, cs) ==
  [server_time |-> server_time, players |-> players, coins |-> cs]

Interp(pid, x, y, tx, ty, t0, t1) ==
  [id |-> pid, x |-> x, y |-> y, tx |-> tx, ty |-> ty, t0 |-> t0, t1 |-> t1]

Pending(seq, dx, dy, ts) == [seq |-> seq, dx |-> dx, dy |-> dy, ts |-> ts]

\* index of pid in a dict kept as a sequence of records with an id, 0 if absent
IndexOfPid(dict, pid) ==
  IF \E i \in 1 .. Len(dict) : dict[i].id = pid
  THEN CHOOSE i \in 1 .. Len(dict) : dict[i].id = pid
  ELSE 0

\* deque(maxlen=SNAPSHOT_MAXLEN).append
DequeAppend(dq, v) ==
  IF Len(dq) >= SNAPSHOT_MAXLEN THEN Append(Tail(dq), v) ELSE Append(dq, v)

\* a reconciliation that keeps the acknowledged inputs pending
RemainingAll(pend, last_seq) == pend

\* remaining = [entries with seq > last_seq]
RECURSIVE Remaining(_, _)
Remaining(pend, last_seq) ==
  IF pend = <<>> THEN <<>>
  ELSE IF Head(pend).seq <= last_seq THEN Remaining(Tail(pend), last_seq)
  ELSE <<Head(pend)>> \o Remaining(Tail(pend), last_seq)

\* the remaining inputs re-applied in order on top of position pos
RECURSIVE Reapply(_, _)
Reapply(pos, pend) ==
  IF pend = <<>> THEN pos
  ELSE Only({
    IF norm > 0
    THEN Reapply(<<pos[1] + MulDiv(MulDiv(Head(pend).dx, One, norm), StepLen, One),
                   pos[2] + MulDiv(MulDiv(Head(pend).dy, One, norm), StepLen, One)>>,
                 Tail(pend))
    ELSE Reapply(pos, Tail(pend)) :
    norm \in {hypot(Head(pend).dx, Head(pend).dy)}})

\* for pid, (x, y, score, last_seq) in players.items(): interpolation targets
\* a client that takes every snapshot record as a first sighting
UpdateRemoteFresh(remote, players, cid, now_local) ==
  [k \in 1 .. Len(SelectSeq(players, LAMBDA p : p.id # cid)) |->
     Only({Interp(p.id, p.x, p.y, p.x, p.y, now_local, now_local) :
           p \in {SelectSeq(players, LAMBDA q : q.id # cid)[k]}})]

RECURSIVE UpdateRemote(_, _, _, _)
UpdateRemote(remote, players, cid, now_local) ==
  IF players = <<>> THEN remote
  ELSE Only({
    IF p.id = cid THEN UpdateRemote(remote, Tail(players), cid, now_local)
    ELSE Only({
      IF i = 0
      THEN UpdateRemote(
             Append(remote, Interp(p.id, p.x, p.y, p.x, p.y, now_local, now_local)),
             Tail(players), cid, now_local)
      ELSE UpdateRemote(
             [remote EXCEPT ![i] = Interp(p.id, remote[i].tx, remote[i].ty, p.x, p.y,
                                          now_local, now_local + INTERPOLATION_DELAY)],
             Tail(players), cid, now_local) :
      i \in {IndexOfPid(remote, p.id)}}) :
    p \in {Head(players)}})

\* self.coins = [(cx, cy) for (_, cx, cy) in coins]
CoinPositions(cs) == [i \in 1 .. Len(cs) |-> <<cs[i].x, cs[i].y>>]

\* the input of a client step: its kind and, for a snapshot, the server time
\* and the player records it carried
ClientEvent(kind, server_time, players, drawn, key) ==
  [kind |-> kind, server_time |-> server_time, players |-> players,
   drawn |-> drawn, key |-> key]

\* 'if t1 == t0: alpha = 1.0 else: alpha = min(1.0, max(0.0, (now - t0) / (t1 - t0)))'
Alpha(now, t0, t1) ==
  IF t1 = t0 THEN One ELSE Min2(One, Max2(0, MulDiv(now - t0, One, t1 - t0)))

\* run, the remote interpolation: where each remote player is drawn at now
Render(remote, now) ==
  [k \in 1 .. Len(remote) |->
     Only({[id |-> p.id,
            ix |-> p.x + MulDiv(p.tx - p.x, alpha, One),
            iy |-> p.y + MulDiv(p.ty - p.y, alpha, One)] :
           p \in {remote[k]}, alpha \in {Alpha(now, remote[k].t0, remote[k].t1)}})]

\* Client.process_packet, MSG_SERVER_ACCEPT branch
ServerAccept(assigned) ==
  /\ client_id' = IF assigned # client_id THEN assigned ELSE client_id
  /\ UNCHANGED <<cl_players, cl_coins, local_x, local_y, score, pending_inputs,
                 snapshots>>

\* Client.process_packet, MSG_WORLD_SNAPSHOT branch
WorldSnapshot(snap) ==
  /\ snapshots' = DequeAppend(snapshots, snap.server_time)
  /\ \E i \in {IndexOfPid(snap.players, client_id)} :
       IF i # 0
       THEN \E remaining \in {Remaining(pending_inputs, snap.players[i].last_seq)} :
              \E pos \in {Reapply(<<snap.players[i].x, snap.players[i].y>>, remaining)} :
                /\ local_x' = pos[1]
                /\ local_y' = pos[2]
                /\ score' = snap.players[i].score
                /\ pending_inputs' = remaining
       ELSE UNCHANGED <<local_x, local_y, score, pending_inputs>>
  /\ cl_players' = UpdateRemote(cl_players, snap.players, client_id, clock)
  /\ cl_coins' = CoinPositions(snap.coins)
  /\ UNCHANGED client_id

\* Client.process_packet on a datagram that unpack_message decoded
client_process_packet(class_id, payload) ==
  /\ class_id = MSG_WORLD_SNAPSHOT => Len(snapshots) < MaxSnapshots
  /\ cl_event' = IF class_id = MSG_WORLD_SNAPSHOT
                  THEN ClientEvent("recv", payload.server_time, payload.players, <<>>,
                                   <<0, 0>>)
                  ELSE ClientEvent("recv", 0, <<>>, <<>>, <<0, 0>>)
  /\ IF class_id = MSG_SERVER_ACCEPT THEN ServerAccept(payload.assigned)
     ELSE IF class_id = MSG_WORLD_SNAPSHOT THEN WorldSnapshot(payload)
     ELSE UNCHANGED <<client_id, cl_players, cl_coins, local_x, local_y, score,
                      pending_inputs, snapshots>>
  /\ join_reply' = join_reply \cup ({class_id} \cap {MSG_SERVER_ACCEPT, MSG_JOIN_REJECT})
  /\ UNCHANGED <<input_seq, serverVars, codecVars, shimVars>>

\* a client that skips a sequence number
NextSeqSkip(seq) == seq + 2

\* 'self.input_seq += 1'
NextSeq(seq) == seq + 1

\* the input part of one iteration of Client.run, frame ms after the last one
run(dx, dy, frame) ==
  /\ clock < ClockStart + MaxFrames * frame
  /\ clock' = clock + frame
  /\ cl_event' = ClientEvent("frame", 0, <<>>, Render(cl_players, clock'), <<dx, dy>>)
  /\ IF dx # 0 \/ dy # 0
     THEN \E l \in {hypot(dx * One, dy * One)} :
            \E dxn \in {MulDiv(dx * One, One, l)}, dyn \in {MulDiv(dy * One, One, l)} :
              /\ local_x' = local_x + MulDiv(dxn, StepLen, One)
              /\ local_y' = local_y + MulDiv(dyn, StepLen, One)
              /\ input_seq' = NextSeq(input_seq)
              /\ pending_inputs' =
                   Append(pending_inputs, Pending(input_seq', dxn, dyn, clock'))
              /\ sent' = <<[type |-> MSG_COMMAND, to |-> "server", cid |-> client_id,
                            ts |-> clock',
                            snap |-> Payload(client_id, input_seq', <<dxn, dyn>>, clock')]>>
     ELSE /\ sent' = <<>>
          /\ UNCHANGED <<local_x, local_y, input_seq, pending_inputs>>
  /\ UNCHANGED <<client_id, cl_players, cl_coins, score, snapshots, join_reply>>
  /\ UNCHANGED <<clients, client_id_map, last_client_recv, coins, next_coin_id,
                 ticks, commands, event, applied, applied_at, received, lockVars>>
  /\ UNCHANGED <<codecVars, shimVars>>

\* arrow keys held in a frame
Keys == {<<0, 0>>, <<1, 0>>}

FrameTimes == {17}

SnapTimes == {100, 200}

\* the record of the local player in a snapshot, or none
LocalRecords ==
  {<<>>}
  \cup {<<SnapPlayer(LocalId, 6 * ack * StepLen, 0, ack, ack)>> : ack \in {0, 1}}

RemoteRecords ==
  {<<>>} \cup {<<SnapPlayer(RemoteId, x, 0, 0, 0)>> : x \in {-12 * StepLen, -18 * StepLen}}

SnapCoins == {<<>>, <<Coin(0, 30 * StepLen, 0)>>}

ClientSnapshots ==
  {Snapshot(t, l \o r, cs) :
     t \in SnapTimes, l \in LocalRecords, r \in RemoteRecords, cs \in SnapCoins}

ClientPayloads(class_id) ==
  IF class_id = MSG_SERVER_ACCEPT THEN {[assigned |-> c] : c \in ClientIds}
  ELSE IF class_id = MSG_WORLD_SNAPSHOT THEN ClientSnapshots
  ELSE {NoPayload}

ClientReceive(classes) ==
  \E class_id \in classes :
    \E payload \in ClientPayloads(class_id) : client_process_packet(class_id, payload)

Frame(keys) == \E key \in keys, frame \in FrameTimes : run(key[1], key[2], frame)

\* a joined client: snapshots and pongs arrive between frames
NextClient == ClientReceive({MSG_WORLD_SNAPSHOT, MSG_PONG}) \/ Frame(Keys)

SpecClient == Init /\ [][NextClient]_vars

\* a client that has just sent its join request: the replies arrive between frames
JoinReplies == {MSG_SERVER_ACCEPT, MSG_JOIN_REJECT, MSG_PONG}

\* left and right arrow keys
JoinKeys == Keys \cup {<<-1, 0>>}

NextJoin == ClientReceive(JoinReplies) \/ Frame(JoinKeys)

SpecJoin == Init /\ [][NextJoin]_vars

(***************************************************************************)
(* resolve_player_player_collisions on its own: two registered players at  *)
(* the positions a tick or a join can hand to it.                          *)
(***************************************************************************)
\* position of the first player
CollideAnchors == {<<0, 0>>, <<BOUND_HI, 0>>, <<BOUND_LO, BOUND_LO>>}

\* position of the second player relative to the first, in steps
CollideOffsets ==
  {<<0, 0>>, <<4, 0>>, <<-4, 0>>, <<0, 4>>, <<0, -8>>, <<3, 4>>, <<-3, 4>>,
   <<3, -4>>, <<9, 0>>, <<10, 0>>}

InBounds(v) == v >= BOUND_LO /\ v <= BOUND_HI

\* the two players of a world, as client_id_map holds them
TwoPlayers(pa, off, a_moved, b_moved) ==
  <<[Player(1, "a1") EXCEPT !.x = pa[1], !.y = pa[2], !.moved = a_moved],
    [Player(2, "a2") EXCEPT !.x = pa[1] + off[1] * StepLen,
                            !.y = pa[2] + off[2] * StepLen, !.moved = b_moved]>>

InitCollide ==
  /\ clients = DictSet(DictSet(<<>>, "a1", 1), "a2", 2)
  /\ \E pa \in CollideAnchors, off \in CollideOffsets, a_moved, b_moved \in BOOLEAN :
       /\ InBounds(pa[1] + off[1] * StepLen)
       /\ InBounds(pa[2] + off[2] * StepLen)
       /\ client_id_map = TwoPlayers(pa, off, a_moved, b_moved)
  /\ WorldInit
  /\ CodecIdle
  /\ ClientInit
  /\ ShimIdle("")

\* update_physics line 224: the call on list(self.client_id_map.values())
Resolve ==
  /\ event.kind = "init"
  /\ client_id_map' = resolve_player_player_collisions(client_id_map)
  /\ event' = Event("resolve", 0, "", NoPayload)
  /\ sent' = <<>>
  /\ UNCHANGED <<clients, last_client_recv, coins, next_coin_id, clock, ticks,
                 commands, applied, applied_at, received, lockVars>>
  /\ UNCHANGED <<codecVars, clientVars, shimVars>>

NextCollide == Resolve

SpecCollide == InitCollide /\ [][NextCollide]_vars

(***************************************************************************)
(* update_physics at the edge of the map: two or three players in a row    *)
(* along the x axis next to a bound, with commands queued that move them   *)
(* towards it.                                                             *)
(***************************************************************************)
\* -1 for the row at the low bound, 1 for the row at the high bound
EdgeSides == {-1, 1}

\* a queue of n commands with sequences 1..n that move towards the side
EdgeQueue(n, side) == [q \in 1 .. n |-> [seq |-> q, dx |-> side, dy |-> 0]]

\* the address of the k-th player of a row
EdgeAddr(k) == <<"a1", "a2", "a3">>[k]

\* the k-th player of a row: 2R further from the bound than the one before
EdgePlayer(k, side, n) ==
  [Player(k, EdgeAddr(k))
   EXCEPT !.x = side * (BOUND_HI - (k - 1) * 2 * PLAYER_RADIUS),
          !.inputs = EdgeQueue(n, side)]

\* the connection table of a row of n players
RECURSIVE EdgeClients(_)
EdgeClients(n) ==
  IF n = 0 THEN <<>>
  ELSE DictSet(EdgeClients(n - 1), EdgeAddr(n), n)

InitEdge ==
  /\ \E side \in EdgeSides, n \in {2, 3} :
       \E queued \in [1 .. n -> 0 .. MaxQueued] :
         /\ clients = EdgeClients(n)
         /\ client_id_map = [k \in 1 .. n |-> EdgePlayer(k, side, queued[k])]
  /\ WorldInit
  /\ CodecIdle
  /\ ClientInit
  /\ ShimIdle("")

\* ticks at the fixed rate
EdgeEnv == Env({}, {}, {}, {}, 0, TickRate)

NextEdge == Tick(EdgeEnv)

SpecEdge == InitEdge /\ [][NextEdge]_vars

\* ---------------------------------------------------------------------
\* The delay queues: network.SimulatedSocket and the client's recv_queue

\* an entry of a delay queue: (time, type, data, addr), a datagram standing
\* for data with its address; the client keeps (time, (type, data))
QueueItem(t, kind, data) == [t |-> t, kind |-> kind, data |-> data]

ShimData == {"d1", "d2"}

\* samples of random.gauss(latency, jitter), in ms
Gauss == {-1, 1}

\* the time that passes between two readings of time.time(), in ms
Elapsed == {0, 1}

\* max(0, random.gauss(latency, jitter))
Delay(g) == Max2(0, g)

\* a queue that hands over whatever it holds
DueAlways(now, t) == TRUE

\* 'if now >= t'
Due(now, t) == now >= t

\* the datagrams the socket holds when a poll reads it empty, each with the
\* gauss sample drawn for it and the time that passed before it was read
Arrivals(n, passed) ==
  UNION {[1 .. k -> [data : ShimData, g : Gauss, e : passed]] : k \in 0 .. n}

\* the entries a poll appends: their stamps are read off base for all
\* (SimulatedSocket.update, 'now') or off the clock at each read (the client)
Stamps(arrivals, now, fresh) ==
  [k \in 1 .. Len(arrivals) |-> IF fresh THEN now + arrivals[k].e ELSE now]

Stamped(arrivals, stamps) ==
  [k \in 1 .. Len(arrivals) |->
     QueueItem(stamps[k] + Delay(arrivals[k].g), "recv", arrivals[k].data)]

\* list.remove: the first entry equal to item goes
RECURSIVE RemoveFirst(_, _)
RemoveFirst(q, item) ==
  IF q = <<>> THEN <<>>
  ELSE IF Head(q) = item THEN Tail(q)
  ELSE <<Head(q)>> \o RemoveFirst(Tail(q), item)

\* 'for t, item in self.recv_queue[:]: ... self.recv_queue.remove((t, item))'
RECURSIVE RemoveEach(_, _)
RemoveEach(q, items) ==
  IF items = <<>> THEN q ELSE RemoveEach(RemoveFirst(q, Head(items)), Tail(items))

DueOf(q, now, kind) ==
  SelectSeq(q, LAMBDA item : Due(now, item.t) /\ item.kind = kind)

\* SimulatedSocket.sendto
sendto(data, g, e) ==
  /\ poll.by = "SimulatedSocket"
  /\ Len(queue) < MaxPending
  /\ shim_clock + e <= ClockStart + MaxShimTime
  /\ queue' = Append(queue, QueueItem(shim_clock + Delay(g), "send", data))
  /\ poll' = Poll("sendto", poll.by, shim_clock, queue, <<queue'[Len(queue')]>>,
                  <<shim_clock>>, <<>>, <<>>, poll.last_ping)
  /\ shim_clock' = shim_clock + e
  /\ UNCHANGED recv_queue
  /\ UNCHANGED <<serverVars, codecVars, clientVars>>

\* SimulatedSocket.update
update(arrivals, e) ==
  /\ poll.by = "SimulatedSocket"
  /\ Len(queue) + Len(arrivals) <= MaxPending
  /\ shim_clock + e <= ClockStart + MaxShimTime
  /\ \E now \in {shim_clock} :
       \E stamps \in {Stamps(arrivals, now, FALSE)} :
         \E q1 \in {queue \o Stamped(arrivals, stamps)} :
           /\ queue' = SelectSeq(q1, LAMBDA item : ~Due(now, item.t))
           /\ poll' = Poll("poll", poll.by, now, queue, Stamped(arrivals, stamps),
                           stamps, DueOf(q1, now, "recv"), DueOf(q1, now, "send"),
                           poll.last_ping)
  /\ shim_clock' = shim_clock + e
  /\ UNCHANGED recv_queue
  /\ UNCHANGED <<serverVars, codecVars, clientVars>>

\* Client.send_packet
send_packet(data, g, e) ==
  /\ poll.by = "Client"
  /\ Len(recv_queue) < MaxPending
  /\ shim_clock + e <= ClockStart + MaxShimTime
  /\ recv_queue' = Append(recv_queue, QueueItem(shim_clock + Delay(g), "send", data))
  /\ poll' = Poll("sendto", poll.by, shim_clock, recv_queue,
                  <<recv_queue'[Len(recv_queue')]>>, <<shim_clock>>, <<>>, <<>>,
                  poll.last_ping)
  /\ shim_clock' = shim_clock + e
  /\ UNCHANGED queue
  /\ UNCHANGED <<serverVars, codecVars, clientVars>>

\* Client.network_loop: the flush of the sends, the read of the socket, the
\* hand-over of the due datagrams to process_packet, and the ping, which
\* goes to the socket past the queue
network_loop(arrivals, e) ==
  /\ poll.by = "Client"
  /\ Len(recv_queue) + Len(arrivals) <= MaxPending
  /\ shim_clock + e <= ClockStart + MaxShimTime
  /\ \E now \in {shim_clock} :
       \E stamps \in {Stamps(arrivals, now, TRUE)} :
         \E written \in {DueOf(recv_queue, now, "send")} :
           \E q2 \in {RemoveEach(recv_queue, written) \o Stamped(arrivals, stamps)} :
             \E ready \in {DueOf(q2, now, "recv")} :
               /\ recv_queue' = RemoveEach(q2, ready)
               /\ poll' = Poll("poll", poll.by, now, recv_queue,
                               Stamped(arrivals, stamps), stamps, ready, written,
                               IF now - poll.last_ping > PingPeriod
                               THEN now ELSE poll.last_ping)
  /\ shim_clock' = shim_clock + e
  /\ UNCHANGED queue
  /\ UNCHANGED <<serverVars, codecVars, clientVars>>

\* a SimulatedSocket, or a Client, with its empty queue
InitShim ==
  /\ ServerInit
  /\ CodecIdle
  /\ ClientInit
  /\ \E by \in {"SimulatedSocket", "Client"} : ShimIdle(by)

NextShim ==
  \/ \E data \in ShimData, g \in Gauss, e \in Elapsed : sendto(data, g, e)
  \/ \E arrivals \in Arrivals(MaxArrivals, {0}), e \in Elapsed : update(arrivals, e)
  \/ \E data \in ShimData, g \in Gauss, e \in Elapsed : send_packet(data, g, e)
  \/ \E e \in Elapsed : \E arrivals \in Arrivals(MaxArrivals, 0 .. e) : network_loop(arrivals, e)

SpecShim == InitShim /\ [][NextShim]_vars

(***************************************************************************)
(* Properties                                                              *)
(***************************************************************************)
RECURSIVE SeqMax(_)
SeqMax(q) == IF q = <<>> THEN 0 ELSE Max2(Head(q), SeqMax(Tail(q)))

NoRepeat(q) == \A i, j \in 1 .. Len(q) : q[i] = q[j] => i = j

\* C1: for every player, across every step (a tick or a received datagram)
\* last_seq does not decrease, it equals the highest sequence number applied
\* for that player so far (0 when none was), and no sequence number has
\* been applied twice.
C1_SequenceMonotone ==
  [][\A i \in 1 .. Len(client_id_map') :
       LET p == client_id_map'[i]
       IN /\ i <= Len(client_id_map) => p.last_seq >= client_id_map[i].last_seq
          /\ p.last_seq = SeqMax(applied'[p.id])
          /\ NoRepeat(applied'[p.id])]_vars

\* C1 witness: three commands were received for one player, of which the
\* ticks applied 1 and then 3 across a gap, and dropped the third
C1_Witness ==
  /\ commands = 3
  /\ ticks = 2
  /\ \E i \in 1 .. Len(client_id_map) :
       /\ applied[client_id_map[i].id] = <<1, 3>>
       /\ client_id_map[i].last_seq = 3
       /\ client_id_map[i].inputs = <<>>

\* C3: in every state outside the lock (after construction, after every tick
\* and every datagram) the number of live coins is the initial count.
C3_CoinCount == Len(coins) = INITIAL_COINS

\* C3 witness: two players have each collected coins, which were replaced
C3_Witness ==
  /\ next_coin_id > INITIAL_COINS
  /\ Len(client_id_map) = 2
  /\ \A i \in 1 .. Len(client_id_map) : client_id_map[i].score > 0

\* the id is held by a Player that was created for another address
BoundElsewhere(cid, addr, m) ==
  \E i \in 1 .. Len(m) : m[i].id = cid /\ m[i].addr # addr

\* C4: a join-request for an id bound to a different address is answered
\* with one join-reject to the sender and changes neither table nor any
\* Player (position, score, queue, last_seq).
C4_DuplicateIdRejected ==
  [][(/\ event'.kind = "recv"
      /\ event'.type = MSG_JOIN_REQUEST
      /\ BoundElsewhere(event'.payload.cid, event'.addr, client_id_map))
     => (/\ sent' = <<Message(MSG_JOIN_REJECT, event'.addr, 0, 0, NoSnap)>>
         /\ clients' = clients
         /\ client_id_map' = client_id_map)]_vars

\* C4 witness: the last datagram was a join-request for an id that another
\* address holds, and a join-reject went out
C4_Witness ==
  /\ event.kind = "recv"
  /\ event.type = MSG_JOIN_REQUEST
  /\ BoundElsewhere(event.payload.cid, event.addr, client_id_map)
  /\ Len(sent) = 1
  /\ sent[1].type = MSG_JOIN_REJECT

\* C5: the address table and the id table hold the same Player objects.
C5_TablesAgree == ClientPlayerIds(clients) = MapIds(client_id_map)

\* C6: after a close message from the address of an active player, the
\* player is in neither table.
C6_CloseRemovesPlayer ==
  [][(/\ event'.kind = "recv"
      /\ event'.type = MSG_CLOSE
      /\ event'.addr \in ClientAddrs(clients))
     => (/\ event'.addr \notin ClientAddrs(clients')
         /\ Len(client_id_map') < Len(client_id_map))]_vars

\* the latest server time among the snapshots the client has taken in
RECURSIVE NewestOf(_)
NewestOf(times) ==
  IF Len(times) = 1 THEN times[1]
  ELSE Max2(Head(times), NewestOf(Tail(times)))

\* C2: a world snapshot whose server timestamp is not strictly greater than
\* that of the last accepted snapshot is discarded: processing it leaves local
\* position, score, pending inputs, remote interpolation state and coins
\* unchanged.
C2_StaleSnapshotDiscarded ==
  [][(/\ cl_event'.kind = "recv"
      /\ Len(snapshots') = Len(snapshots) + 1
      /\ snapshots # <<>>
      /\ snapshots'[Len(snapshots')] <= NewestOf(snapshots))
     => UNCHANGED <<local_x, local_y, score, pending_inputs, cl_players, cl_coins>>]_vars

\* C7: a message packed with a type code in 0..999 decodes to exactly that
\* type and payload, with the server's and with the client's decoder.
C7_RoundTrip ==
  (packed # <<>> /\ decoded # <<>> /\ packed[1].type \in 0 .. 999)
  => /\ decoded[1] = Decoded("ok", packed[1].type, packed[1].payload)
     /\ client_decoded[1] = Decoded("ok", packed[1].type, packed[1].payload)

\* C7 witness: type 999 with a payload holding a byte above 127 was packed
\* and decoded
C7_Witness ==
  /\ packed # <<>>
  /\ decoded # <<>>
  /\ packed[1].type = 999
  /\ packed[1].payload = <<ByteHigh, 0>>
  /\ decoded[1].status = "ok"
  /\ Len(wire[1]) = HEADER_SIZE + MSG_TYPE_SIZE + 2

\* a field that int() does not accept
NonNumeric(field) == ~ParseInt(field).ok

\* the declared body length is a number and is the number of bytes that follow
LengthAgrees(data) ==
  /\ ParseInt(PySlice(data, 0, HEADER_SIZE)).ok
  /\ ParseInt(PySlice(data, 0, HEADER_SIZE)).val = Len(data) - HEADER_SIZE

\* empty or cut short of the header, a length field that is not a number, or
\* (in a frame of the declared length) a type field that is not a number
Malformed(data) ==
  \/ Len(data) < HEADER_SIZE
  \/ NonNumeric(PySlice(data, 0, HEADER_SIZE))
  \/ /\ LengthAgrees(data)
     /\ NonNumeric(PySlice(data, HEADER_SIZE, HEADER_SIZE + MSG_TYPE_SIZE))

\* C8: on a datagram that is empty, shorter than the header, or whose length
\* field or type field is not a number, both decoders return (None, None);
\* neither raises.
C8_DecodeNeverRaises ==
  (decoded # <<>> /\ Malformed(wire[1]))
  => /\ decoded[1] = DecodeFailure
     /\ client_decoded[1] = DecodeFailure

\* C9: a frame whose declared body length differs from the number of bytes
\* after the length field is reported as a decode failure by
\* network.unpack_message.
C9_LengthMismatchFails ==
  (/\ decoded # <<>>
   /\ Len(wire[1]) >= HEADER_SIZE
   /\ ~NonNumeric(PySlice(wire[1], 0, HEADER_SIZE))
   /\ ~LengthAgrees(wire[1]))
  => decoded[1] = DecodeFailure

\* centre distance of the two players of a world
Distance(m) == hypot(m[2].x - m[1].x, m[2].y - m[1].y)

\* a coordinate of p sits on the edge of the playable area
OnBound(p) == p.x \in {BOUND_LO, BOUND_HI} \/ p.y \in {BOUND_LO, BOUND_HI}

\* C10: two players closer than twice the player radius (coincident centres
\* included) are at least twice the radius apart after
\* resolve_player_player_collisions, unless clamping held one at the bounds.
C10_SeparatedAfterResolve ==
  [][(/\ event'.kind = "resolve"
      /\ Len(client_id_map) = 2
      /\ Distance(client_id_map) < 2 * PLAYER_RADIUS
      /\ ~OnBound(client_id_map'[1])
      /\ ~OnBound(client_id_map'[2]))
     => Distance(client_id_map') >= 2 * PLAYER_RADIUS]_vars

\* the sequence numbers in a history
SeqSet(h) == {h[k] : k \in 1 .. Len(h)}

\* the commands of a history arrived in increasing sequence order
ArrivedInOrder(h) == \A j, k \in 1 .. Len(h) : j < k => h[j] < h[k]

\* the player with id pid has no command queued
QueueEmpty(pid) ==
  \A i \in 1 .. Len(client_id_map) :
    client_id_map[i].id = pid => client_id_map[i].inputs = <<>>

\* the record of a player whose commands 1..5 were all received and consumed
\* reads last_seq 5 and x five steps right of the spawn position, clamped
FiveStepsReported(r) ==
  /\ r.last_seq = 5
  /\ \E s \in FiveSpots : r.x = Min2(BOUND_HI, s[1] + 5 * StepLen)

\* C11 as stated: once the commands 1..5 (all moving right) of a joined
\* player are received and consumed, the snapshot reports last_seq 5 and x
\* five steps right of the start, clamped, however they fell over the ticks.
C11_FiveSteps ==
  \A k \in 1 .. Len(sent) :
    sent[k].type = MSG_WORLD_SNAPSHOT =>
      \A i \in 1 .. Len(sent[k].snap.players) :
        (/\ SeqSet(received[sent[k].snap.players[i].id]) = FiveSeqs
         /\ QueueEmpty(sent[k].snap.players[i].id))
        => FiveStepsReported(sent[k].snap.players[i])

\* C11 amended: the same, for commands that arrive in sequence order.
C11_FiveStepsInOrder ==
  \A k \in 1 .. Len(sent) :
    sent[k].type = MSG_WORLD_SNAPSHOT =>
      \A i \in 1 .. Len(sent[k].snap.players) :
        (/\ SeqSet(received[sent[k].snap.players[i].id]) = FiveSeqs
         /\ ArrivedInOrder(received[sent[k].snap.players[i].id])
         /\ QueueEmpty(sent[k].snap.players[i].id))
        => FiveStepsReported(sent[k].snap.players[i])

\* C11 witness: the third tick reports a player whose five commands arrived
\* in order and are consumed
C11_Witness ==
  /\ event.kind = "tick"
  /\ ticks = 3
  /\ Len(sent) = 1
  /\ Len(sent[1].snap.players) = 1
  /\ received[1] = <<1, 2, 3, 4, 5>>
  /\ applied[1] = <<1, 2, 3, 4, 5>>
  /\ applied_at[1] = clock
  /\ QueueEmpty(1)
  /\ sent[1].snap.players[1].last_seq = 5

\* C12: outside the server lock every player's x and y lie within the
\* playable bounds, in the tables and in every snapshot sent.
C12_PlayersInBounds ==
  /\ \A i \in 1 .. Len(client_id_map) :
       InBounds(client_id_map[i].x) /\ InBounds(client_id_map[i].y)
  /\ \A k \in 1 .. Len(sent) :
       sent[k].type = MSG_WORLD_SNAPSHOT =>
         \A i \in 1 .. Len(sent[k].snap.players) :
           /\ InBounds(sent[k].snap.players[i].x)
           /\ InBounds(sent[k].snap.players[i].y)

\* C12 witness: in a row of three at the high bound the first two moved
\* towards it; a later tick pushed the overlapping pair apart, which put the
\* first beyond the bound, and it sits on the bound
C12_Witness ==
  /\ event.kind = "tick"
  /\ ticks = 2
  /\ Len(client_id_map) = 3
  /\ applied[1] # <<>>
  /\ applied[2] # <<>>
  /\ client_id_map[1].x = BOUND_HI
  /\ client_id_map[2].x < BOUND_HI - 2 * PLAYER_RADIUS + StepLen
  /\ client_id_map[2].x > BOUND_HI - 2 * PLAYER_RADIUS
  /\ Len(sent) = 3

\* C13: the client sends a command (a frame of Client.run with input) only
\* after a join-accept has arrived, and never once a join-reject has arrived.
C13_CommandsOnlyAfterAccept ==
  [][input_seq' # input_seq
       => /\ MSG_SERVER_ACCEPT \in join_reply
          /\ MSG_JOIN_REJECT \notin join_reply]_vars

\* the sequence number a player's last_seq held before the k-th command of
\* the history h was applied
SeqBefore(h, k) == IF k = 1 THEN 0 ELSE h[k - 1]

\* C14: a tick applies a command across a gap (its sequence is beyond
\* last_seq + 1) only when more than the timeout has passed since a command
\* of that player was last applied, so never after another command of the
\* same tick.
C14_GapOnlyAfterTimeout ==
  [][event'.kind = "tick"
       => \A c \in AllIds :
            \A k \in Len(applied[c]) + 1 .. Len(applied'[c]) :
              applied'[c][k] > SeqBefore(applied'[c], k) + 1
                => /\ k = Len(applied[c]) + 1
                   /\ \/ applied_at[c] = 0
                      \/ clock' - applied_at[c] > INPUT_TIMEOUT]_vars

\* the command with sequence number q is queued for the connected player c
Queued(c, q) ==
  \E i \in 1 .. Len(clients) :
    /\ clients[i].id = c
    /\ \E j \in 1 .. Len(client_id_map) :
         /\ client_id_map[j].id = c
         /\ \E k \in 1 .. Len(client_id_map[j].inputs) :
              client_id_map[j].inputs[k].seq = q

\* C15: while ticks keep running, every command queued for a connected
\* player is eventually removed from its queue.
C15_QueuedEventuallyRemoved ==
  \A c \in LiveEnv.ids : \A q \in LiveEnv.seqs : Queued(c, q) ~> ~Queued(c, q)

\* C15 witness: command 1 was applied in order, command 2 never arrived, and
\* command 3 left the queue once the timeout since command 1 had passed
C15_Witness ==
  /\ event.kind = "tick"
  /\ applied[1] = <<1, 3>>
  /\ applied_at[1] - last_client_recv["a1"] > INPUT_TIMEOUT
  /\ last_client_recv["a1"] > 0
  /\ QueueEmpty(1)

\* the player at index i of the table did not change position in this step
Unmoved(i) ==
  /\ client_id_map'[i].x = client_id_map[i].x
  /\ client_id_map'[i].y = client_id_map[i].y

\* C16: when two overlapping players are resolved and exactly one of them
\* moved this tick, the moving one keeps its position and the stationary one
\* is displaced; when both moved, their displacements are equal and opposite.
C16_MoverPushesStationary ==
  [][(/\ event'.kind = "resolve"
      /\ Len(client_id_map) = 2
      /\ Distance(client_id_map) < 2 * PLAYER_RADIUS
      /\ ~OnBound(client_id_map'[1])
      /\ ~OnBound(client_id_map'[2]))
     => /\ (client_id_map[1].moved /\ ~client_id_map[2].moved)
             => Unmoved(1) /\ ~Unmoved(2)
        /\ (client_id_map[2].moved /\ ~client_id_map[1].moved)
             => Unmoved(2) /\ ~Unmoved(1)
        /\ (client_id_map[1].moved /\ client_id_map[2].moved)
             => /\ client_id_map[1].x - client_id_map'[1].x
                     = client_id_map'[2].x - client_id_map[2].x
                /\ client_id_map[1].y - client_id_map'[1].y
                     = client_id_map'[2].y - client_id_map[2].y]_vars

\* the step carried a snapshot newer than every snapshot the client holds
NewerSnapshot ==
  /\ cl_event'.kind = "recv"
  /\ Len(snapshots') = Len(snapshots) + 1
  /\ snapshots # <<>> => cl_event'.server_time > NewestOf(snapshots)

\* the sum of one 1/60 s step along the direction of each input of pend
RECURSIVE StepsAlong(_)
StepsAlong(pend) ==
  IF pend = <<>> THEN <<0, 0>>
  ELSE Only({<<MulDiv(MulDiv(Head(pend).dx, One, norm), StepLen, One) + rest[1],
               MulDiv(MulDiv(Head(pend).dy, One, norm), StepLen, One) + rest[2]>> :
             norm \in {hypot(Head(pend).dx, Head(pend).dy)},
             rest \in {StepsAlong(Tail(pend))}})

\* C17: after the client processes an accepted snapshot that holds its own id
\* with (sx, sy, score, ack), its score is score, pending_inputs holds the
\* previously pending inputs with sequence > ack in their order, and the local
\* position is (sx, sy) plus one step per remaining input.
C17_Reconciled ==
  [][NewerSnapshot
       => \A i \in 1 .. Len(cl_event'.players) :
            cl_event'.players[i].id = client_id
              => /\ score' = cl_event'.players[i].score
                 /\ pending_inputs'
                      = SelectSeq(pending_inputs,
                                  LAMBDA e : e.seq > cl_event'.players[i].last_seq)
                 /\ local_x' = cl_event'.players[i].x + StepsAlong(pending_inputs')[1]
                 /\ local_y' = cl_event'.players[i].y + StepsAlong(pending_inputs')[2]]_vars

\* C17 witness: two inputs were pending; a snapshot placing the client six
\* steps right with score 1 acknowledged the first, and the second was
\* re-applied on top of it
C17_Witness ==
  /\ input_seq = 2
  /\ cl_event.kind = "recv"
  /\ Len(cl_event.players) >= 1
  /\ cl_event.players[1] = SnapPlayer(LocalId, 6 * StepLen, 0, 1, 1)
  /\ Len(pending_inputs) = 1
  /\ pending_inputs[1].seq = 2
  /\ score = 1
  /\ local_x = 7 * StepLen

\* the player ids a snapshot carried
SnapIds(players) == {players[i].id : i \in 1 .. Len(players)}

\* C18: after the client processes an accepted snapshot, its remote
\* interpolation set holds no player id that is absent from that snapshot.
C18_AbsentPlayersRemoved ==
  [][NewerSnapshot
       => \A k \in 1 .. Len(cl_players') :
            cl_players'[k].id \in SnapIds(cl_event'.players)]_vars

\* the player records of a snapshot, as the id table holds the players
RecordsOf(m) ==
  [i \in 1 .. Len(m) |->
     [id |-> m[i].id, x |-> m[i].x, y |-> m[i].y, score |-> m[i].score,
      last_seq |-> m[i].last_seq]]

\* C19: a tick sends one snapshot to every connected address, all with the
\* same content: one record per player as of the end of the tick, one per
\* live coin, and the players recorded are those of the connections it is
\* sent to.
C19_SnapshotMatchesConnections ==
  event.kind = "tick"
  => /\ Len(sent) = Len(clients)
     /\ \A k \in 1 .. Len(sent) :
          /\ sent[k].type = MSG_WORLD_SNAPSHOT
          /\ sent[k].to = clients[k].addr
          /\ sent[k].snap.time = clock
          /\ sent[k].snap.players = RecordsOf(client_id_map)
          /\ sent[k].snap.coins = coins
          /\ {sent[k].snap.players[i].id : i \in 1 .. Len(sent[k].snap.players)}
               = ClientPlayerIds(clients)
          /\ Len(sent[k].snap.players) = Len(clients)

\* the connection tables, with the players' queues, positions and scores,
\* and the coin list
Protected == <<clients, client_id_map, last_client_recv, coins, next_coin_id>>

\* C20: every change of the connection tables, input queues, positions,
\* scores and coins is made by the thread that holds the lock, and while a
\* tick is between the start of its input processing and its snapshot no
\* step of the receive thread changes any of them.
C20_TickAtomic ==
  [][/\ Protected' # Protected
          => \/ lock = "recv" /\ recv_pc.at = "locked" /\ tick_pc = "idle"
                /\ tick_pc' = tick_pc
             \/ lock = "tick" /\ tick_pc # "idle" /\ recv_pc.at # "locked"
                /\ recv_pc' = recv_pc
     /\ (tick_pc # "idle" /\ tick_pc' = tick_pc) => Protected' = Protected]_vars

\* C20 witness: the tick thread holds the lock after applying the command of
\* a player, and the receive thread waits for the lock with a join request
C20_Witness ==
  /\ lock = "tick"
  /\ tick_pc = "collide"
  /\ applied[1] = <<1>>
  /\ recv_pc.at = "wait"
  /\ recv_pc.type = MSG_JOIN_REQUEST
  /\ recv_pc.payload.cid = 2

\* the step is one iteration of receive_loop that handled a datagram to its
\* end: event' is that datagram
Handled ==
  /\ tick_pc' = tick_pc
  /\ recv_pc.at \in {"idle", "locked"}
  /\ recv_pc' = RecvIdle
  /\ event'.kind = "recv"

\* the datagram fails framing, is of an unknown type, is truncated, or is a
\* command from an address with no player
Dropped(e, cl) ==
  \/ e.type \in {MSG_NONE, MSG_UNKNOWN}
  \/ e.type \in {MSG_JOIN_REQUEST, MSG_COMMAND} /\ e.payload.short
  \/ e.type = MSG_COMMAND /\ e.addr \notin ClientAddrs(cl)

\* C21: a datagram that fails framing, has an unknown type, a truncated
\* payload, or is a command from an address with no player changes neither
\* the tables, players, queues nor coins, leaves the receive thread without
\* the lock and ready for the next datagram, and nothing is sent.
C21_BadDatagramDropped ==
  [][(Handled /\ Dropped(event', clients))
       => /\ Protected' = Protected
          /\ received' = received
          /\ lock' = lock
          /\ lock' # "recv"
          /\ recv_pc' = RecvIdle
          /\ sent' = <<>>]_vars

\* C21 witness: while a tick holds the lock, a truncated command from the
\* address of a joined player was dropped
C21_Witness ==
  /\ event.kind = "recv"
  /\ event.type = MSG_COMMAND
  /\ event.payload.short
  /\ event.addr \in ClientAddrs(clients)
  /\ lock = "tick"
  /\ tick_pc = "inputs"
  /\ recv_pc = RecvIdle

\* C22: a join-reject is sent only for an id that another address holds.
C22_RejectOnlyForeignId ==
  [][(/\ event'.kind = "recv"
      /\ event'.type = MSG_JOIN_REQUEST
      /\ Len(sent') = 1
      /\ sent'[1].type = MSG_JOIN_REJECT)
     => BoundElsewhere(event'.payload.cid, event'.addr, client_id_map)]_vars

\* C23: a ping, from an address with or without a player, is answered in the
\* same iteration of the receive loop with one pong to the sender that
\* carries the ping's timestamp; the iteration starts from the idle receive
\* thread whoever holds the lock, leaves the lock as it is, and changes no
\* table, player, queue or coin.
C23_PingAnswered ==
  [][(Handled /\ event'.type = MSG_PING)
       => /\ sent' = <<Message(MSG_PONG, event'.addr, 0, event'.payload.ts, NoSnap)>>
          /\ recv_pc.at = "idle"
          /\ lock' = lock
          /\ Protected' = Protected
          /\ received' = received]_vars

\* C23 witness: a ping from the address of a joined player was answered with
\* a pong while a tick held the lock
C23_Witness ==
  /\ event.kind = "recv"
  /\ event.type = MSG_PING
  /\ event.addr \in ClientAddrs(clients)
  /\ Len(sent) = 1
  /\ sent[1].type = MSG_PONG
  /\ sent[1].ts = event.payload.ts
  /\ lock = "tick"
  /\ tick_pc = "collide"

\* a ping from an address without a player was answered with a pong
C23_Unregistered ==
  /\ event.kind = "recv"
  /\ event.type = MSG_PING
  /\ event.addr \notin ClientAddrs(clients)
  /\ Len(sent) = 1
  /\ sent[1].type = MSG_PONG

\* the queue of the object the delay queue actions run on
StillQueued == IF poll.by = "Client" THEN recv_queue ELSE queue

Occurrences(q, item) == Cardinality({k \in 1 .. Len(q) : q[k] = item})

SameItems(q1, q2) ==
  \A item \in {q1[k] : k \in 1 .. Len(q1)} \cup {q2[k] : k \in 1 .. Len(q2)} :
    Occurrences(q1, item) = Occurrences(q2, item)

\* C24: a poll hands over only inbound entries and writes only outbound
\* entries whose time is at or before the time the poll read first; an
\* entry's time is never before the time it was queued; what the poll found
\* and queued is, entry by entry, what it handed over, wrote or left
\* pending; and what it left pending is not yet due.
C24_DeliveredWhenDueOnce ==
  /\ \A k \in 1 .. Len(poll.arrivals) :
       /\ poll.arrivals[k].t >= poll.stamps[k]
       /\ poll.stamps[k] >= poll.now
  /\ poll.kind = "sendto" => StillQueued = poll.before \o poll.arrivals
  /\ poll.kind = "poll" =>
       /\ \A k \in 1 .. Len(poll.ready) :
            poll.ready[k].kind = "recv" /\ poll.ready[k].t <= poll.now
       /\ \A k \in 1 .. Len(poll.written) :
            poll.written[k].kind = "send" /\ poll.written[k].t <= poll.now
       /\ SameItems(poll.before \o poll.arrivals,
                    poll.ready \o poll.written \o StillQueued)
       /\ \A k \in 1 .. Len(StillQueued) : StillQueued[k].t > poll.now

\* C24 witness: a poll of the SimulatedSocket handed over a due inbound
\* datagram and left a later entry pending
C24_Witness ==
  /\ poll.kind = "poll"
  /\ poll.by = "SimulatedSocket"
  /\ Len(poll.ready) = 1
  /\ Len(StillQueued) = 1
  /\ Len(poll.before) = 2

\* a poll of the client wrote a due command and handed over a datagram it
\* had queued on an earlier poll
C24_ClientPoll ==
  /\ poll.kind = "poll"
  /\ poll.by = "Client"
  /\ Len(poll.ready) = 1
  /\ Len(poll.written) = 1
  /\ poll.arrivals = <<>>

\* a poll of the client found two equal entries and handled both
C24_EqualEntries ==
  /\ poll.kind = "poll"
  /\ poll.by = "Client"
  /\ Len(poll.before) = 2
  /\ poll.before[1] = poll.before[2]
  /\ StillQueued = <<>>

\* C25: after a snapshot is processed, every player in it other than the
\* client's own has an interpolation state: on first sighting previous and
\* target position are the reported one and the window is [now, now];
\* otherwise the previous position is the old target, the target is the
\* reported position and the window is [now, now + INTERPOLATION_DELAY].
\* A frame draws every remote player whose window has zero length at its
\* target.
C25_RemoteInterpolation ==
  [][/\ (cl_event'.kind = "recv" /\ cl_event'.players # <<>>)
        => \A k \in 1 .. Len(cl_event'.players) :
             cl_event'.players[k].id # client_id
               => /\ IndexOfPid(cl_players', cl_event'.players[k].id) # 0
                  /\ cl_players'[IndexOfPid(cl_players', cl_event'.players[k].id)] =
                       IF IndexOfPid(cl_players, cl_event'.players[k].id) = 0
                       THEN Interp(cl_event'.players[k].id,
                                   cl_event'.players[k].x, cl_event'.players[k].y,
                                   cl_event'.players[k].x, cl_event'.players[k].y,
                                   clock, clock)
                       ELSE Interp(cl_event'.players[k].id,
                                   cl_players[IndexOfPid(cl_players, cl_event'.players[k].id)].tx,
                                   cl_players[IndexOfPid(cl_players, cl_event'.players[k].id)].ty,
                                   cl_event'.players[k].x, cl_event'.players[k].y,
                                   clock, clock + INTERPOLATION_DELAY)
     /\ cl_event'.kind = "frame"
        => /\ Len(cl_event'.drawn) = Len(cl_players)
           /\ \A k \in 1 .. Len(cl_players) :
                cl_players[k].t0 = cl_players[k].t1
                  => /\ cl_event'.drawn[k].ix = cl_players[k].tx
                     /\ cl_event'.drawn[k].iy = cl_players[k].ty]_vars

\* C25 witness: the remote player was seen at one position, then reported at
\* another, and a frame drew it between the two
C25_Witness ==
  /\ Len(cl_players) = 1
  /\ cl_event.kind = "frame"
  /\ cl_players[1].x # cl_players[1].tx
  /\ cl_players[1].t1 = cl_players[1].t0 + INTERPOLATION_DELAY
  /\ Len(cl_event.drawn) = 1
  /\ cl_event.drawn[1].ix # cl_players[1].x
  /\ cl_event.drawn[1].ix # cl_players[1].tx

\* a frame drew a remote player that was seen once, at its target
C25_FirstSightingDrawn ==
  /\ Len(cl_players) = 1
  /\ cl_event.kind = "frame"
  /\ cl_players[1].t1 = cl_players[1].t0
  /\ Len(cl_event.drawn) = 1
  /\ cl_event.drawn[1].ix = cl_players[1].tx

\* the commands among the datagrams a step wrote
CommandsIn(out) == SelectSeq(out, LAMBDA m : m.type = MSG_COMMAND)

\* C26: a step of the client writes a command only on a frame with a key
\* held, and then exactly one; its sequence number is one more than
\* input_seq, which it becomes; an entry with that sequence number and the
\* command's direction is appended to pending_inputs; a frame with no key
\* held writes no command, a packet processed writes nothing, and neither
\* changes input_seq; and pending_inputs is strictly increasing in sequence.
C26_CommandSequence ==
  [][/\ IF cl_event'.kind = "frame" /\ cl_event'.key # <<0, 0>>
        THEN /\ Len(CommandsIn(sent')) = 1
             /\ CommandsIn(sent')[1].snap.seq = input_seq + 1
             /\ input_seq' = input_seq + 1
             /\ Len(pending_inputs') = Len(pending_inputs) + 1
             /\ SubSeq(pending_inputs', 1, Len(pending_inputs)) = pending_inputs
             /\ pending_inputs'[Len(pending_inputs')].seq = input_seq'
             /\ pending_inputs'[Len(pending_inputs')].dx = CommandsIn(sent')[1].snap.dx
             /\ pending_inputs'[Len(pending_inputs')].dy = CommandsIn(sent')[1].snap.dy
        ELSE /\ IF cl_event'.kind = "frame" THEN CommandsIn(sent') = <<>>
                ELSE sent' = sent
             /\ input_seq' = input_seq
     /\ \A i, j \in 1 .. Len(pending_inputs') :
          i < j => pending_inputs'[i].seq < pending_inputs'[j].seq
     /\ \A i \in 1 .. Len(pending_inputs') : pending_inputs'[i].seq <= input_seq']_vars

\* C26 witness: the second command went out while the first was still
\* pending
C26_Witness ==
  /\ input_seq = 2
  /\ cl_event.kind = "frame"
  /\ cl_event.key = <<1, 0>>
  /\ Len(sent) = 1
  /\ sent[1].snap.seq = 2
  /\ Len(pending_inputs) = 2
  /\ pending_inputs[1].seq = 1
  /\ pending_inputs[2].seq = 2

RECURSIVE TotalScore(_)
TotalScore(m) == IF m = <<>> THEN 0 ELSE Head(m).score + TotalScore(Tail(m))

\* the players that overlap a coin at pos
Overlapping(m, pos) ==
  {k \in 1 .. Len(m) :
     hypot(m[k].x - pos[1], m[k].y - pos[2]) < PLAYER_RADIUS + COIN_RADIUS}

\* C27: whenever no tick holds the lock, the scores of all players add up to
\* the number of coins spawned after the constructor's INITIAL_COINS; the
\* coins on the field are INITIAL_COINS coins with different ids, so every
\* point scored stands for one coin taken off the field and replaced.
C27_ScoresCountPickups ==
  lock # "tick" =>
    /\ TotalScore(client_id_map) = next_coin_id - INITIAL_COINS
    /\ Len(coins) = INITIAL_COINS
    /\ \A i, j \in 1 .. Len(coins) : coins[i].id = coins[j].id => i = j
    /\ \A i \in 1 .. Len(coins) : coins[i].id < next_coin_id

\* C27 witness: after a tick two players both overlap the place of the first
\* coin, that coin is gone, and one of them has no point
C27_Witness ==
  /\ lock = ""
  /\ ticks = 1
  /\ Len(client_id_map) = 2
  /\ Overlapping(client_id_map, InitStream[1]) = {1, 2}
  /\ \A i \in 1 .. Len(coins) : coins[i].id # 0
  /\ TotalScore(client_id_map) > 0
  /\ \E k \in {1, 2} : client_id_map[k].score = 0

====
